---------------------------- MODULE Spec2Model ----------------------------
(***************************************************************************)
(* A model of the Aleph proof-of-concept process driver:                   *)
(*   aleph/process.py              Process (admission, SNAP validation,    *)
(*                                 linear ordering)                        *)
(*   aleph/data_structures/userDB.py   UserDB (the ledger)                 *)
(*   aleph/network/network.py      listener / sync (pairwise gossip)       *)
(* The Poset class (aleph/data_structures) is not part of the sources at   *)
(* hand; its operations are modelled from the written specification and    *)
(* are marked "spec" in the comments below.                                *)
(***************************************************************************)
EXTENDS Integers, Sequences, FiniteSets, TLC

(***************************************************************************)
(* Bounds of the model.                                                    *)
(***************************************************************************)
MaxUnits == 5        \* units a poset may hold

(***************************************************************************)
(* Program parameters.                                                     *)
(***************************************************************************)
n_processes == 3     \* Process.__init__(n_processes, ...)
N_PARENTS == 2       \* config.N_PARENTS, create_unit(num_parents = 2)

ProcessIds == 0 .. (n_processes - 1)

\* spec (section 4.1): T = ceil(2N/3)
Threshold(n) == (2 * n + 2) \div 3

(***************************************************************************)
(* Users and transactions (userDB.py works on tx.issuer, tx.receiver,      *)
(* tx.amount, tx.index).                                                   *)
(***************************************************************************)
Users == {"A", "B", "C"}

Tx(i, r, a, x) == [issuer |-> i, receiver |-> r, amount |-> a, index |-> x]

tx_AB60 == Tx("A", "B", 60, 0)
tx_AC60 == Tx("A", "C", 60, 0)
tx_neg  == Tx("C", "B", -5, 0)     \* negative amount
tx_big  == Tx("B", "A", 500, 0)    \* more than the issuer owns
tx_idx  == Tx("A", "B", 10, 5)     \* not the issuer's next index
tx_AB30 == Tx("A", "B", 30, 0)
tx_BA50 == Tx("B", "A", 50, 0)

\* the transaction lists a unit may carry
TxBatchSeq ==
    << <<>>, <<tx_AB60>>, <<tx_AC60>>,
       <<tx_neg, tx_big, tx_idx, tx_AB30>>, <<tx_BA50>> >>

TxBatches == { TxBatchSeq[i] : i \in DOMAIN TxBatchSeq }

BatchNo(b) == CHOOSE i \in DOMAIN TxBatchSeq : TxBatchSeq[i] = b

(***************************************************************************)
(* Units.  A unit is the record of the fields that network.unit_to_dict    *)
(* puts on the wire (creator_id, parents, txs, signature), with the height *)
(* and level that Poset.prepare_unit derives from them and caches in the   *)
(* unit.  Parents are the parent units themselves, and the hash of a unit  *)
(* is the unit (a collision-free content address).  signature is TRUE iff  *)
(* it verifies under the creator's key.                                    *)
(***************************************************************************)
Range(s) == { s[i] : i \in DOMAIN s }

Max(S) == CHOOSE x \in S : \A y \in S : y <= x

Height(U) == U.height

level(U) == U.level

RECURSIVE below(_, _)
\* spec (section 3): V <= U iff V is reachable from U through parent edges
below(V, U) ==
    \/ V = U
    \/ \E i \in DOMAIN U.parents : below(V, U.parents[i])

RECURSIVE DownSet(_)
DownSet(U) ==
    {U} \cup UNION { DownSet(U.parents[i]) : i \in DOMAIN U.parents }

\* creators with two distinct units of the same height in the set S
Forkers(S) ==
    { c \in ProcessIds :
        \E V \in S, W \in S :
            /\ V # W /\ V.creator_id = c /\ W.creator_id = c
            /\ Height(V) = Height(W) }

\* spec (section 4.3): prime iff genesis or the self-predecessor has a
\* strictly smaller level
is_prime(U) ==
    \/ Len(U.parents) = 0
    \/ U.parents[1].creator_id # U.creator_id
    \/ level(U.parents[1]) < level(U)

\* spec (section 3): 0 without a self-predecessor, else height(self_pred)+1
compute_height(c, ps) ==
    IF Len(ps) = 0 \/ ps[1].creator_id # c THEN 0 ELSE Height(ps[1]) + 1

\* spec (section 4.3, glossary): level 0 without parents; otherwise one more
\* than the parents' maximal level m if the unit sees prime units of level
\* m by at least T distinct non-forking creators, else m
compute_level(ps) ==
    IF Len(ps) = 0 THEN 0
    ELSE LET m == Max({ level(ps[i]) : i \in DOMAIN ps })
             seen == UNION { DownSet(ps[i]) : i \in DOMAIN ps }
             primes == { V \in seen : level(V) = m /\ is_prime(V) }
             who == { V.creator_id : V \in primes } \ Forkers(seen)
         IN  IF Cardinality(who) >= Threshold(n_processes) THEN m + 1 ELSE m

Unit(c, ps, txs, sig) ==
    [creator_id |-> c, parents |-> ps, txs |-> txs, signature |-> sig,
     height |-> compute_height(c, ps), level |-> compute_level(ps)]

\* creators of the prime units of level l that are below V
Visible(V, l) ==
    { W.creator_id : W \in { X \in DownSet(V) : level(X) = l /\ is_prime(X) } }

\* spec (section 4.3, rule 7): every additional parent strictly increases
\* the set of processes visible at the self-predecessor's level
expand_primes(U) ==
    LET l == level(U.parents[1])
    IN  \A i \in 2 .. Len(U.parents) :
            ~ (Visible(U.parents[i], l) \subseteq
                 UNION { Visible(U.parents[j], l) : j \in 1 .. (i - 1) })

\* spec (section 4.3): the compliance rules 1-7 of a unit against the
\* admitted units S
check_compliance(S, U) ==
    /\ \A i \in DOMAIN U.parents : U.parents[i] \in S
    /\ Len(U.parents) = 0 \/ Len(U.parents) >= 2
    /\ \A i, j \in DOMAIN U.parents :
          i # j => U.parents[i].creator_id # U.parents[j].creator_id
    /\ Len(U.parents) > 0 => U.parents[1].creator_id = U.creator_id
    /\ U.signature
    /\ Len(U.parents) > 0 => expand_primes(U)

(***************************************************************************)
(* UserDB (userDB.py).  The two dictionaries are functions whose domain is *)
(* the set of keys present; Get is dict.get(key, default).                 *)
(***************************************************************************)
Get(d, k, default) == IF k \in DOMAIN d THEN d[k] ELSE default

Put(d, k, v) == [x \in (DOMAIN d) \cup {k} |-> IF x = k THEN v ELSE d[x]]

\* UserDB.__init__(initial_balances_and_indices)
UserDB(initial) ==
    [user_balance |-> [u \in DOMAIN initial |-> initial[u][1]],
     user_last_transaction_index |-> [u \in DOMAIN initial |-> initial[u][2]]]

account_balance(db, u) == Get(db.user_balance, u, 0)

last_transaction(db, u) == Get(db.user_last_transaction_index, u, -1)

check_transaction_correctness(db, tx) ==
    LET issuer_balance == Get(db.user_balance, tx.issuer, 0)
        issuer_last_transaction ==
            Get(db.user_last_transaction_index, tx.issuer, -1)
    IN  /\ tx.amount >= 0
        /\ issuer_balance >= tx.amount
        /\ tx.index = issuer_last_transaction + 1

\* apply_transaction debiting the issuer twice
apply_transaction_double_debit(db, tx) ==
    LET issuer_balance == Get(db.user_balance, tx.issuer, 0)
        receiver_balance == Get(db.user_balance, tx.receiver, 0)
        issuer_last_transaction ==
            Get(db.user_last_transaction_index, tx.issuer, -1)
        asserts == /\ tx.amount >= 0
                   /\ issuer_balance >= tx.amount
                   /\ tx.index = issuer_last_transaction + 1
        b1 == Put(db.user_balance, tx.issuer, issuer_balance - 2 * tx.amount)
        b2 == Put(b1, tx.receiver, receiver_balance + tx.amount)
    IN  IF ~ asserts
        THEN [db |-> db, raised |-> TRUE]
        ELSE [db |-> [user_balance |-> b2,
                      user_last_transaction_index |->
                          Put(db.user_last_transaction_index,
                              tx.issuer, tx.index)],
              raised |-> FALSE]

\* apply_transaction with issuer and receiver exchanged in the transfer
apply_transaction_swapped(db, tx) ==
    LET issuer_balance == Get(db.user_balance, tx.issuer, 0)
        receiver_balance == Get(db.user_balance, tx.receiver, 0)
        issuer_last_transaction ==
            Get(db.user_last_transaction_index, tx.issuer, -1)
        asserts == /\ tx.amount >= 0
                   /\ issuer_balance >= tx.amount
                   /\ tx.index = issuer_last_transaction + 1
        b1 == Put(db.user_balance, tx.issuer, issuer_balance + tx.amount)
        b2 == Put(b1, tx.receiver, receiver_balance - tx.amount)
    IN  IF ~ asserts
        THEN [db |-> db, raised |-> TRUE]
        ELSE [db |-> [user_balance |-> b2,
                      user_last_transaction_index |->
                          Put(db.user_last_transaction_index,
                              tx.issuer, tx.index)],
              raised |-> FALSE]

\* apply_transaction that leaves the issuer's last index as it was
apply_transaction_index_kept(db, tx) ==
    LET issuer_balance == Get(db.user_balance, tx.issuer, 0)
        receiver_balance == Get(db.user_balance, tx.receiver, 0)
        issuer_last_transaction ==
            Get(db.user_last_transaction_index, tx.issuer, -1)
        asserts == /\ tx.amount >= 0
                   /\ issuer_balance >= tx.amount
                   /\ tx.index = issuer_last_transaction + 1
        b1 == Put(db.user_balance, tx.issuer, issuer_balance - tx.amount)
        b2 == Put(b1, tx.receiver, receiver_balance + tx.amount)
    IN  IF ~ asserts
        THEN [db |-> db, raised |-> TRUE]
        ELSE [db |-> [user_balance |-> b2,
                      user_last_transaction_index |->
                          db.user_last_transaction_index],
              raised |-> FALSE]

\* The result is the ledger after the call and whether one of the three
\* assertions failed (the ledger is then as before: they precede the writes).
apply_transaction(db, tx) ==
    LET issuer_balance == Get(db.user_balance, tx.issuer, 0)
        receiver_balance == Get(db.user_balance, tx.receiver, 0)
        issuer_last_transaction ==
            Get(db.user_last_transaction_index, tx.issuer, -1)
        asserts == /\ tx.amount >= 0
                   /\ issuer_balance >= tx.amount
                   /\ tx.index = issuer_last_transaction + 1
        b1 == Put(db.user_balance, tx.issuer, issuer_balance - tx.amount)
        b2 == Put(b1, tx.receiver, receiver_balance + tx.amount)
    IN  IF ~ asserts
        THEN [db |-> db, raised |-> TRUE]
        ELSE [db |-> [user_balance |-> b2,
                      user_last_transaction_index |->
                          Put(db.user_last_transaction_index,
                              tx.issuer, tx.index)],
              raised |-> FALSE]

(***************************************************************************)
(* Poset operations used by Process (spec).                                *)
(***************************************************************************)
\* spec (section 4.4): U is high above V iff at least T creators have a
\* unit W with V <= W <= U
high_above(U, V) ==
    Cardinality({ W.creator_id :
                    W \in { X \in DownSet(U) : below(V, X) } })
        >= Threshold(n_processes)

\* spec (section 4.4): the units that the new unit U validates, each unit
\* being reported once, by the first unit high above it
validate_using_new_unit(S, validated, U) ==
    { V \in (S \cup {U}) \ validated : high_above(U, V) }

\* spec (section 4.4): the timing unit of level l is decided by a unit of
\* level l + K
DecidingDepth == 1

\* spec (section 4.4): the candidates for the timing unit of level l are
\* the admitted prime units of level l by non-forking creators that a
\* deciding unit (of level l + K or more) sees
timing_candidates(S, l) ==
    { V \in S : /\ level(V) = l
                /\ is_prime(V)
                /\ V.creator_id \notin Forkers(S)
                /\ \E D \in S : /\ level(D) >= l + DecidingDepth
                                /\ below(V, D) }

RECURSIVE timing_decisions(_, _)
\* spec (section 4.4): what attempt_timing_decision may return with levels
\* below l decided: timing units for the next levels, in increasing order
\* of level, as many as the coin and the deciding units settle (any number)
timing_decisions(S, l) ==
    {<<>>} \cup
    UNION { { <<V>> \o rest : rest \in timing_decisions(S, l + 1) } :
            V \in timing_candidates(S, l) }

\* a total order on units standing for the order of their hashes
RECURSIVE UnitCmp(_, _)
UnitCmp(U, V) ==
    LET sgn(x) == IF x < 0 THEN -1 ELSE IF x > 0 THEN 1 ELSE 0
    IN  IF U = V THEN 0
        ELSE IF U.creator_id # V.creator_id
        THEN sgn(U.creator_id - V.creator_id)
        ELSE IF Len(U.parents) # Len(V.parents)
        THEN sgn(Len(U.parents) - Len(V.parents))
        ELSE IF U.signature # V.signature
        THEN (IF V.signature THEN -1 ELSE 1)
        ELSE IF U.txs # V.txs
        THEN sgn(BatchNo(U.txs) - BatchNo(V.txs))
        ELSE LET i == CHOOSE k \in DOMAIN U.parents :
                        /\ U.parents[k] # V.parents[k]
                        /\ \A j \in 1 .. (k - 1) : U.parents[j] = V.parents[j]
             IN  UnitCmp(U.parents[i], V.parents[i])

\* spec (section 4.4): ascending level, then the keyed hash
\* H(hash(V) || hash(T)), a permutation that depends on the timing unit
tie_before(V, W, T) ==
    \/ level(V) < level(W)
    \/ /\ level(V) = level(W)
       /\ IF T.creator_id % 2 = 0 THEN UnitCmp(V, W) < 0
                                  ELSE UnitCmp(V, W) > 0

RECURSIVE SortSet(_, _)
SortSet(S, T) ==
    IF S = {} THEN <<>>
    ELSE LET m == CHOOSE x \in S : \A y \in S \ {x} : tie_before(x, y, T)
         IN  <<m>> \o SortSet(S \ {m}, T)

\* spec (section 4.4): Poset.break_ties sorts the list it is given
break_ties(units_to_order, T) == SortSet(Range(units_to_order), T)

(***************************************************************************)
(* Process (process.py).  A process is the record of its fields; units,    *)
(* timing_units and validated belong to its poset (spec).  raised tells    *)
(* that an AssertionError has escaped one of its handlers.                 *)
(***************************************************************************)
\* Process.__init__
Process(process_id, userDB, validation_method) ==
    [process_id |-> process_id,
     validation_method |-> validation_method,
     units |-> {},
     timing_units |-> <<>>,
     validated |-> {},
     userDB |-> userDB,
     pending_txs |-> <<>>,
     is_forker |-> [c \in ProcessIds |-> FALSE],
     validated_transactions |-> <<>>,
     unordered_units |-> {},
     linear_order |-> <<>>,
     gossip_strategy |-> "unif_random",
     keep_syncing |-> TRUE,
     sync_id |-> 0,
     last_synced_with_process |-> [c \in ProcessIds |-> -1],
     prepared_txs |-> <<>>,
     raised |-> FALSE]

\* spec (section 4.2): Poset.add_unit appends U to the indices of the poset
poset_add_unit(s, U) == [s EXCEPT !.units = @ \cup {U}]

RECURSIVE process_txs_in_unit_list(_)
\* counts the transactions of the units in list_U
process_txs_in_unit_list(list_U) ==
    IF list_U = <<>> THEN 0
    ELSE Len(Head(list_U).txs) + process_txs_in_unit_list(Tail(list_U))

\* validate_one without the call of check_transaction_correctness
validate_one_unchecked(r, pending_txs, i, U, U_validator) ==
    LET tx == U.txs[i]
        user_public_key == tx.issuer
        entry(outcome) ==
            [tx |-> tx, pos |-> i, unit |-> U, validator |-> U_validator,
             db |-> r.db, pending |-> Get(pending_txs, tx.issuer, {}),
             outcome |-> outcome]
        transaction_fork_present ==
            \E pr \in pending_txs[user_public_key] :
                /\ tx.index = pr[1].index
                /\ <<tx, U>> # pr
                /\ below(pr[2], U_validator)
    IN  IF r.raised THEN r
        ELSE IF \/ user_public_key \notin DOMAIN pending_txs
                \/ <<tx, U>> \notin pending_txs[user_public_key]
        THEN [r EXCEPT !.raised = TRUE]
        ELSE IF tx.index # last_transaction(r.db, tx.issuer) + 1
        THEN [r EXCEPT !.log = Append(@, entry("index"))]
        ELSE IF transaction_fork_present
        THEN [r EXCEPT !.log = Append(@, entry("fork"))]
        ELSE LET a == apply_transaction(r.db, tx)
             IN  IF a.raised
                 THEN [r EXCEPT !.raised = TRUE]
                 ELSE [r EXCEPT !.db = a.db,
                                !.validated_transactions = Append(@, tx),
                                !.log = Append(@, entry("applied"))]

\* validate_one without the search for a transaction fork
validate_one_no_fork_check(r, pending_txs, i, U, U_validator) ==
    LET tx == U.txs[i]
        user_public_key == tx.issuer
        entry(outcome) ==
            [tx |-> tx, pos |-> i, unit |-> U, validator |-> U_validator,
             db |-> r.db, pending |-> Get(pending_txs, tx.issuer, {}),
             outcome |-> outcome]
    IN  IF r.raised THEN r
        ELSE IF \/ user_public_key \notin DOMAIN pending_txs
                \/ <<tx, U>> \notin pending_txs[user_public_key]
        THEN [r EXCEPT !.raised = TRUE]
        ELSE IF tx.index # last_transaction(r.db, tx.issuer) + 1
        THEN [r EXCEPT !.log = Append(@, entry("index"))]
        ELSE IF ~ check_transaction_correctness(r.db, tx)
        THEN [r EXCEPT !.log = Append(@, entry("incorrect"))]
        ELSE LET a == apply_transaction(r.db, tx)
             IN  IF a.raised
                 THEN [r EXCEPT !.raised = TRUE]
                 ELSE [r EXCEPT !.db = a.db,
                                !.validated_transactions = Append(@, tx),
                                !.log = Append(@, entry("applied"))]

\* One round of the loop over U.transactions() in
\* validate_transactions_in_unit: r holds the ledger, the transactions
\* validated so far, the log of what was decided and whether an assertion
\* has failed.
validate_one(r, pending_txs, i, U, U_validator) ==
    LET tx == U.txs[i]
        user_public_key == tx.issuer
        entry(outcome) ==
            [tx |-> tx, pos |-> i, unit |-> U, validator |-> U_validator,
             db |-> r.db, pending |-> Get(pending_txs, tx.issuer, {}),
             outcome |-> outcome]
        transaction_fork_present ==
            \E pr \in pending_txs[user_public_key] :
                /\ tx.index = pr[1].index
                /\ <<tx, U>> # pr
                /\ below(pr[2], U_validator)
    IN  IF r.raised THEN r
        ELSE IF \/ user_public_key \notin DOMAIN pending_txs
                \/ <<tx, U>> \notin pending_txs[user_public_key]
        THEN [r EXCEPT !.raised = TRUE]
        ELSE IF tx.index # last_transaction(r.db, tx.issuer) + 1
        THEN [r EXCEPT !.log = Append(@, entry("index"))]
        ELSE IF transaction_fork_present
        THEN [r EXCEPT !.log = Append(@, entry("fork"))]
        ELSE IF ~ check_transaction_correctness(r.db, tx)
        THEN [r EXCEPT !.log = Append(@, entry("incorrect"))]
        ELSE LET a == apply_transaction(r.db, tx)
             IN  IF a.raised
                 THEN [r EXCEPT !.raised = TRUE]
                 ELSE [r EXCEPT !.db = a.db,
                                !.validated_transactions = Append(@, tx),
                                !.log = Append(@, entry("applied"))]

RECURSIVE validate_loop(_, _, _, _, _)
validate_loop(r, pending_txs, U, U_validator, i) ==
    IF i > Len(U.txs) THEN r
    ELSE validate_loop(validate_one(r, pending_txs, i, U, U_validator),
                       pending_txs, U, U_validator, i + 1)

\* The result: the process after the call, the list returned, the log and
\* whether an assertion failed (the discards are then not reached).
validate_transactions_in_unit(s, U, U_validator) ==
    LET r == validate_loop([db |-> s.userDB, validated_transactions |-> <<>>,
                            log |-> <<>>, raised |-> FALSE],
                           s.pending_txs, U, U_validator, 1)
        done == { <<r.validated_transactions[i], U>> :
                    i \in DOMAIN r.validated_transactions }
        pending == IF r.raised THEN s.pending_txs
                   ELSE [k \in DOMAIN s.pending_txs |-> s.pending_txs[k] \ done]
    IN  [s |-> [s EXCEPT !.userDB = r.db, !.pending_txs = pending,
                         !.raised = r.raised],
         validated_transactions |-> r.validated_transactions,
         log |-> r.log]

RECURSIVE add_pending(_, _, _)
\* lines 112-115: every transaction of U becomes pending for its issuer
add_pending(pending_txs, U, i) ==
    IF i > Len(U.txs) THEN pending_txs
    ELSE LET tx == U.txs[i]
         IN  add_pending(Put(pending_txs, tx.issuer,
                             Get(pending_txs, tx.issuer, {}) \cup {<<tx, U>>}),
                         U, i + 1)

RECURSIVE snap_validate_loop(_, _, _, _)
\* lines 116-120: the loop over list_of_validated_units; r holds the
\* process and the log
snap_validate_loop(r, list, U, i) ==
    IF i > Len(list) \/ r.s.raised THEN r
    ELSE LET V == list[i]
         IN  IF V.txs = <<>>
             THEN snap_validate_loop(r, list, U, i + 1)
             ELSE LET v == validate_transactions_in_unit(r.s, V, U)
                      s2 == [v.s EXCEPT !.validated_transactions =
                                IF v.s.raised THEN @
                                ELSE @ \o v.validated_transactions]
                  IN  snap_validate_loop([s |-> s2, log |-> r.log \o v.log],
                                         list, U, i + 1)

\* list_of_validated_units is what Poset.add_unit(U, list) put in the list
add_unit_and_snap_validate(s, U, list_of_validated_units) ==
    LET s1 == [poset_add_unit(s, U) EXCEPT
                  !.validated = @ \cup Range(list_of_validated_units)]
        s2 == [s1 EXCEPT !.pending_txs = add_pending(@, U, 1)]
    IN  snap_validate_loop([s |-> s2, log |-> <<>>],
                           list_of_validated_units, U, 1)

\* extend_with that orders every unordered unit, below U_timing or not
extend_with_all_unordered(s, U_timing, iteration) ==
    LET units_to_order ==
            SelectSeq(iteration, LAMBDA V : V \in s.unordered_units)
        ordered_units == break_ties(units_to_order, U_timing)
    IN  [s EXCEPT !.linear_order = @ \o ordered_units,
                  !.unordered_units = @ \ Range(ordered_units)]

\* extend_with that leaves the ordered units in unordered_units
extend_with_keep_unordered(s, U_timing, iteration) ==
    LET units_to_order ==
            SelectSeq(iteration,
                      LAMBDA V : V \in s.unordered_units /\ below(V, U_timing))
        ordered_units == break_ties(units_to_order, U_timing)
    IN  [s EXCEPT !.linear_order = @ \o ordered_units]

\* extend_with that appends the units as collected, without break_ties
extend_with_unsorted(s, U_timing, iteration) ==
    LET units_to_order ==
            SelectSeq(iteration,
                      LAMBDA V : V \in s.unordered_units /\ below(V, U_timing))
    IN  [s EXCEPT !.linear_order = @ \o units_to_order,
                  !.unordered_units = @ \ Range(units_to_order)]

\* lines 136-144: the units to order are collected in the order in which
\* the set unordered_units is iterated (iteration lists the set)
extend_with(s, U_timing, iteration) ==
    LET units_to_order ==
            SelectSeq(iteration,
                      LAMBDA V : V \in s.unordered_units /\ below(V, U_timing))
        ordered_units == break_ties(units_to_order, U_timing)
    IN  [s EXCEPT !.linear_order = @ \o ordered_units,
                  !.unordered_units = @ \ Range(ordered_units)]

RECURSIVE extend_loop(_, _, _, _)
extend_loop(s, new_timing_units, iteration, i) ==
    IF i > Len(new_timing_units) THEN s
    ELSE extend_loop(extend_with(s, new_timing_units[i], iteration),
                     new_timing_units, iteration, i + 1)

\* add_unit_and_extend_linear_order that does not put U in unordered_units
add_unit_and_extend_linear_order_unrecorded(s, U, new_timing_units, iteration) ==
    LET s1 == poset_add_unit(s, U)
    IN  IF is_prime(U)
        THEN extend_loop([s1 EXCEPT !.timing_units = @ \o new_timing_units],
                         new_timing_units, iteration, 1)
        ELSE s1

\* new_timing_units is what Poset.attempt_timing_decision returned
add_unit_and_extend_linear_order(s, U, new_timing_units, iteration) ==
    LET s1 == [poset_add_unit(s, U) EXCEPT !.unordered_units = @ \cup {U}]
    IN  IF is_prime(U)
        THEN extend_loop([s1 EXCEPT !.timing_units = @ \o new_timing_units],
                         new_timing_units, iteration, 1)
        ELSE s1

\* add_unit_to_poset with the branches of the two validation modes swapped
add_unit_to_poset_modes_swapped(s, U, o) ==
    IF U \in s.units
    THEN [s |-> s, ret |-> TRUE, log |-> <<>>]
    ELSE IF check_compliance(s.units, U)
    THEN IF s.validation_method = "LINEAR_ORDERING"
         THEN LET r == add_unit_and_snap_validate(s, U, o.validated)
              IN  [s |-> r.s, ret |-> TRUE, log |-> r.log]
         ELSE IF s.validation_method = "SNAP"
         THEN [s |-> add_unit_and_extend_linear_order(s, U, o.timing,
                                                      o.iteration),
               ret |-> TRUE, log |-> <<>>]
         ELSE [s |-> poset_add_unit(s, U), ret |-> TRUE, log |-> <<>>]
    ELSE [s |-> s, ret |-> FALSE, log |-> <<>>]

\* add_unit_to_poset without the lookup of U.hash() in poset.units
add_unit_to_poset_no_lookup(s, U, o) ==
    IF check_compliance(s.units, U)
    THEN IF s.validation_method = "SNAP"
         THEN LET r == add_unit_and_snap_validate(s, U, o.validated)
              IN  [s |-> r.s, ret |-> TRUE, log |-> r.log]
         ELSE IF s.validation_method = "LINEAR_ORDERING"
         THEN [s |-> add_unit_and_extend_linear_order(s, U, o.timing,
                                                      o.iteration),
               ret |-> TRUE, log |-> <<>>]
         ELSE [s |-> poset_add_unit(s, U), ret |-> TRUE, log |-> <<>>]
    ELSE [s |-> s, ret |-> FALSE, log |-> <<>>]

\* add_unit_to_poset that adds the unit to the poset before it checks it
add_unit_to_poset_add_first(s, U, o) ==
    IF U \in s.units
    THEN [s |-> s, ret |-> TRUE, log |-> <<>>]
    ELSE IF check_compliance(s.units, U)
    THEN IF s.validation_method = "SNAP"
         THEN LET r == add_unit_and_snap_validate(s, U, o.validated)
              IN  [s |-> r.s, ret |-> TRUE, log |-> r.log]
         ELSE IF s.validation_method = "LINEAR_ORDERING"
         THEN [s |-> add_unit_and_extend_linear_order(s, U, o.timing,
                                                      o.iteration),
               ret |-> TRUE, log |-> <<>>]
         ELSE [s |-> poset_add_unit(s, U), ret |-> TRUE, log |-> <<>>]
    ELSE [s |-> poset_add_unit(s, U), ret |-> FALSE, log |-> <<>>]

\* o holds what the poset contributes to the call: the list of validated
\* units, the new timing units and the iteration order of unordered_units.
\* The result: the process after the call, the value returned and the log
\* of the transactions looked at.
add_unit_to_poset(s, U, o) ==
    IF U \in s.units
    THEN [s |-> s, ret |-> TRUE, log |-> <<>>]
    ELSE IF check_compliance(s.units, U)
    THEN IF s.validation_method = "SNAP"
         THEN LET r == add_unit_and_snap_validate(s, U, o.validated)
              IN  [s |-> r.s, ret |-> TRUE, log |-> r.log]
         ELSE IF s.validation_method = "LINEAR_ORDERING"
         THEN [s |-> add_unit_and_extend_linear_order(s, U, o.timing,
                                                      o.iteration),
               ret |-> TRUE, log |-> <<>>]
         ELSE [s |-> poset_add_unit(s, U), ret |-> TRUE, log |-> <<>>]
    ELSE [s |-> s, ret |-> FALSE, log |-> <<>>]

(***************************************************************************)
(* The state: the processes, the record of the last call of                *)
(* Process.add_unit_to_poset (its argument, result and transaction log),   *)
(* and the network: the syncs in progress and the listeners' counters.     *)
(***************************************************************************)
VARIABLES proc, call, net

vars == <<proc, call, net>>

\* no listener is serving and no sync is in progress
NoNet == [sessions |-> <<>>, n_recv_syncs |-> <<>>]

ValidationMethods == {"SNAP", "LINEAR_ORDERING", "NONE"}

\* the ledgers a process may be constructed with: user -> <<balance, index>>
InitialLedgers == { [u \in {"A"} |-> <<100, -1>>] }

NoCall == [op |-> "none"]

\* The record of a call add_unit_to_poset(U) on the process s with result
\* r: whether U was admitted before the call, whether it passes the
\* compliance check, the unit when it is new and compliant, the timing
\* units the poset elected, the value returned and the transaction log.
CallRecord(s, U, o, r) ==
    [op |-> "add_unit_to_poset",
     process |-> s.process_id,
     known |-> U \in s.units,
     compliant |-> check_compliance(s.units, U),
     unit |-> IF U \notin s.units /\ check_compliance(s.units, U)
              THEN <<U>> ELSE <<>>,
     timing |-> o.timing,
     ret |-> r.ret,
     log |-> r.log]

\* The orders in which a Python set of unit hashes may be iterated: the
\* order depends on the hash seed of the interpreter; two orders stand for
\* them, ascending and descending hash.
RECURSIVE SortByHash(_, _)
SortByHash(S, up) ==
    IF S = {} THEN <<>>
    ELSE LET m == CHOOSE x \in S : \A y \in S \ {x} :
                      IF up THEN UnitCmp(x, y) < 0 ELSE UnitCmp(x, y) > 0
         IN  <<m>> \o SortByHash(S \ {m}, up)

SetIterationOrders(S) == { SortByHash(S, TRUE), SortByHash(S, FALSE) }

RECURSIVE PermSeqs(_)
\* the sequences that list the set S once
PermSeqs(S) ==
    IF S = {} THEN {<<>>}
    ELSE UNION { { <<x>> \o t : t \in PermSeqs(S \ {x}) } : x \in S }

\* the units a caller may hand to add_unit_to_poset of a process whose
\* poset holds S: the admitted units again, well-formed new units on top of
\* S, and malformed ones (bad signature, one parent, a parent that is not
\* admitted, a first parent by another creator)
GenesisUnits == { Unit(c, <<>>, <<>>, TRUE) : c \in ProcessIds }

\* the transaction lists offered in a unit by creator c with parents ps
BatchesOf(c, ps) ==
    IF ps # <<>> THEN { <<>> }
    ELSE IF c = 0 THEN { <<>>, <<tx_AB60>>, <<tx_neg, tx_big, tx_idx, tx_AB30>> }
    ELSE IF c = 1 THEN { <<tx_AC60>>, <<tx_BA50>> }
    ELSE { <<>> }

WellFormed(S) ==
    UNION { { Unit(c, <<>>, b, TRUE) : b \in BatchesOf(c, <<>>) } :
            c \in ProcessIds }
    \cup
    UNION { { Unit(p[1].creator_id, p, b, TRUE) :
                b \in BatchesOf(p[1].creator_id, p) } :
            p \in { q \in S \X S : q[1].creator_id # q[2].creator_id } }

Malformed(S) ==
    { Unit(c, <<>>, <<>>, FALSE) : c \in ProcessIds }
    \cup { Unit(V.creator_id, <<V>>, <<>>, TRUE) : V \in S }
    \cup { Unit(V.creator_id, <<V, G>>, <<>>, TRUE) :
             V \in { W \in S : Height(W) = 0 }, G \in GenesisUnits \ S }
    \cup { Unit(p[2].creator_id, p, <<>>, TRUE) :
             p \in { q \in S \X S : /\ q[1].creator_id # q[2].creator_id
                                   /\ Height(q[1]) = 0
                                   /\ Height(q[2]) = 0 } }

Candidates(S) ==
    S \cup (IF Cardinality(S) < MaxUnits
            THEN WellFormed(S) \cup Malformed(S) ELSE {})

\* what the poset may contribute to a call add_unit_to_poset(U)
Oracles(s, U) ==
    IF U \in s.units \/ ~ check_compliance(s.units, U)
    THEN { [validated |-> <<>>, timing |-> <<>>, iteration |-> <<>>] }
    ELSE IF s.validation_method = "SNAP"
    THEN { [validated |-> v, timing |-> <<>>, iteration |-> <<>>] :
             v \in PermSeqs(validate_using_new_unit(s.units, s.validated, U)) }
    ELSE IF s.validation_method = "LINEAR_ORDERING" /\ is_prime(U)
    THEN UNION { { [validated |-> <<>>, timing |-> t, iteration |-> i] :
                     i \in IF t = <<>> THEN { <<>> }
                           ELSE SetIterationOrders(s.unordered_units \cup {U}) } :
                 t \in timing_decisions(s.units \cup {U},
                                        Len(s.timing_units)) }
    ELSE { [validated |-> <<>>, timing |-> <<>>, iteration |-> <<>>] }

Init ==
    /\ proc \in { [p \in {0} |-> Process(p, UserDB(l), m)] :
                    l \in InitialLedgers, m \in ValidationMethods }
    /\ call = NoCall
    /\ net = NoNet

\* a caller (the creator loop, a test script) admits a unit
AddUnit(p, U, o) ==
    LET r == add_unit_to_poset(proc[p], U, o)
    IN  /\ proc' = [proc EXCEPT ![p] = r.s]
        /\ call' = CallRecord(proc[p], U, o, r)
        /\ UNCHANGED net

Next ==
    \E p \in DOMAIN proc :
        \E U \in Candidates(proc[p].units) :
            \E o \in Oracles(proc[p], U) : AddUnit(p, U, o)

Spec == Init /\ [][Next]_vars

(***************************************************************************)
(* Properties of a single process (specification Spec).                    *)
(***************************************************************************)
Called == call.op = "add_unit_to_poset"

NoDuplicates(seq) == \A i, j \in DOMAIN seq : i # j => seq[i] # seq[j]

\* C1: in LINEAR_ORDERING mode, after any sequence of add_unit_to_poset
\* calls, the linear order holds each unit hash at most once.
C1_LinearOrderNoDuplicates ==
    \A p \in DOMAIN proc :
        proc[p].validation_method = "LINEAR_ORDERING"
            => NoDuplicates(proc[p].linear_order)

\* a call that elected two timing units at once and ordered units
C1_Witness ==
    /\ Called
    /\ Len(call.timing) >= 2
    /\ proc[call.process].validation_method = "LINEAR_ORDERING"
    /\ Len(proc[call.process].linear_order) >= 3

RECURSIVE ledger_after(_, _)
\* the ledger after the transactions txs, each applied iff it is valid
ledger_after(db, txs) ==
    IF txs = <<>> THEN db
    ELSE ledger_after(IF check_transaction_correctness(db, Head(txs))
                      THEN apply_transaction(db, Head(txs)).db
                      ELSE db,
                      Tail(txs))

RECURSIVE txs_of(_)
\* the transactions of a list of units, in the order of the list
txs_of(units) ==
    IF units = <<>> THEN <<>> ELSE Head(units).txs \o txs_of(Tail(units))

\* C3: in LINEAR_ORDERING mode, when units are appended to the linear
\* order, their transactions, in linear order and then in listed order,
\* are applied to the ledger, each iff it is valid at that moment.
C3_LedgerApplication ==
    [][\A p \in DOMAIN proc :
         (/\ proc[p].validation_method = "LINEAR_ORDERING"
          /\ Len(proc'[p].linear_order) > Len(proc[p].linear_order))
         => proc'[p].userDB =
              ledger_after(proc[p].userDB,
                           txs_of(SubSeq(proc'[p].linear_order,
                                         Len(proc[p].linear_order) + 1,
                                         Len(proc'[p].linear_order))))]_vars

BalancesNonNegative ==
    \A p \in DOMAIN proc : \A u \in Users :
        account_balance(proc[p].userDB, u) >= 0

IndexMonotone ==
    \A p \in DOMAIN proc : \A u \in Users :
        last_transaction(proc'[p].userDB, u)
            >= last_transaction(proc[p].userDB, u)

\* C4: from a ledger with non-negative balances, every balance stays
\* non-negative and no issuer's last transaction index ever decreases.
C4_LedgerSafe == []BalancesNonNegative /\ [][IndexMonotone]_vars

\* a transaction of A has been applied by a validation
C4_Witness ==
    \E p \in DOMAIN proc :
        /\ proc[p].validated_transactions # <<>>
        /\ last_transaction(proc[p].userDB, "A") = 0
        /\ account_balance(proc[p].userDB, "A") < 100

\* a transaction fails one of the three validity conditions on the ledger
TxInvalid(db, tx) ==
    \/ tx.amount < 0
    \/ account_balance(db, tx.issuer) < tx.amount
    \/ tx.index # last_transaction(db, tx.issuer) + 1

\* the ledger after the i-th transaction of the last call was looked at
LedgerAfterEntry(i) ==
    IF i < Len(call.log) THEN call.log[i + 1].db
    ELSE proc[call.process].userDB

\* C5: an invalid transaction is skipped silently: the ledger is left as
\* it is, no assertion fails, and the next transaction of the unit is
\* looked at.
C5_InvalidSkipped ==
    /\ \A p \in DOMAIN proc : ~ proc[p].raised
    /\ Called =>
         \A i \in DOMAIN call.log :
            LET e == call.log[i]
            IN  /\ TxInvalid(e.db, e.tx) =>
                     /\ e.outcome # "applied"
                     /\ LedgerAfterEntry(i) = e.db
                /\ e.pos < Len(e.unit.txs) =>
                     /\ i < Len(call.log)
                     /\ call.log[i + 1].unit = e.unit
                     /\ call.log[i + 1].pos = e.pos + 1

\* a unit with a negative amount, an uncovered amount and a wrong index,
\* each skipped, followed by a valid transaction that is applied
C5_Witness ==
    /\ Called
    /\ \E i \in DOMAIN call.log :
          /\ i + 3 <= Len(call.log)
          /\ call.log[i].tx = tx_neg /\ call.log[i].outcome = "incorrect"
          /\ call.log[i + 1].tx = tx_big
          /\ call.log[i + 1].outcome = "incorrect"
          /\ call.log[i + 2].tx = tx_idx /\ call.log[i + 2].outcome = "index"
          /\ call.log[i + 3].tx = tx_AB30
          /\ call.log[i + 3].outcome = "applied"

\* the two conflicting transactions of issuer A: the same index, in units
\* by the creators 0 and 1
ConflictUnit1 == Unit(0, <<>>, <<tx_AB60>>, TRUE)

ConflictUnit2 == Unit(1, <<>>, <<tx_AC60>>, TRUE)

Applied(s, tx) ==
    \E i \in DOMAIN s.validated_transactions : s.validated_transactions[i] = tx

\* a SNAP process built with balance(A) = 100 whose only units with
\* transactions are the two conflicting units, both admitted
ConflictScenario(s) ==
    /\ s.validation_method = "SNAP"
    /\ { V \in s.units : V.txs # <<>> } = {ConflictUnit1, ConflictUnit2}

\* C6 as claimed: once both units are admitted and each has met its
\* validator, exactly one of the two transactions is applied and
\* balance(A) is 40.
C6_ExactlyOneApplied ==
    \A p \in DOMAIN proc :
        (/\ ConflictScenario(proc[p])
         /\ {ConflictUnit1, ConflictUnit2} \subseteq proc[p].validated)
        => /\ Applied(proc[p], tx_AB60) # Applied(proc[p], tx_AC60)
           /\ account_balance(proc[p].userDB, "A") = 40

\* C6 (amended): with both units admitted, at most one of the two
\* transactions is applied; balance(A) is 40 if one is applied and is
\* still 100 if none is.
C6_AtMostOneApplied ==
    \A p \in DOMAIN proc :
        ConflictScenario(proc[p])
        => /\ ~ (Applied(proc[p], tx_AB60) /\ Applied(proc[p], tx_AC60))
           /\ account_balance(proc[p].userDB, "A") =
                IF Applied(proc[p], tx_AB60) \/ Applied(proc[p], tx_AC60)
                THEN 40 ELSE 100

\* both units admitted, one transaction applied by a validator that does
\* not see the other unit
C6_Witness ==
    \E p \in DOMAIN proc :
        /\ ConflictScenario(proc[p])
        /\ Applied(proc[p], tx_AB60)
        /\ account_balance(proc[p].userDB, "A") = 40

\* C7: under SNAP a transaction tx of unit U is applied with validator
\* U_validator only if no other pending pair (tx', V) of the same issuer
\* and index has V below U_validator.
C7_NoForkBelowValidator ==
    Called =>
        \A i \in DOMAIN call.log :
            LET e == call.log[i]
            IN  e.outcome = "applied" =>
                    ~ \E pr \in e.pending :
                        /\ pr # <<e.tx, e.unit>>
                        /\ pr[1].issuer = e.tx.issuer
                        /\ pr[1].index = e.tx.index
                        /\ below(pr[2], e.validator)

\* a transaction applied while a conflicting pair is pending in a unit
\* that is not below the validator
C7_Witness ==
    /\ Called
    /\ \E i \in DOMAIN call.log :
          LET e == call.log[i]
          IN  /\ e.outcome = "applied"
              /\ \E pr \in e.pending :
                    /\ pr # <<e.tx, e.unit>>
                    /\ pr[1].index = e.tx.index
                    /\ ~ below(pr[2], e.validator)

\* C8: add_unit_to_poset with a unit that is already admitted returns True
\* and changes nothing of the process.
C8_ReAddIsNoOp ==
    [][(call'.op = "add_unit_to_poset" /\ call'.known)
          => (proc' = proc /\ call'.ret = TRUE)]_vars

\* an admitted unit was handed in again after units were ordered or
\* transactions validated
C8_Witness ==
    /\ Called
    /\ call.known
    /\ \/ proc[call.process].linear_order # <<>>
       \/ proc[call.process].validated_transactions # <<>>

\* C9: add_unit_to_poset returns False exactly when the unit is not yet
\* admitted and fails the compliance check, and then the process is as
\* before; a compliant unit is admitted and True is returned.
C9_FalseIffNonCompliant ==
    [][call'.op = "add_unit_to_poset" =>
          /\ (call'.ret = FALSE) <=> (~ call'.known /\ ~ call'.compliant)
          /\ call'.ret = FALSE => proc' = proc
          /\ (call'.compliant /\ ~ call'.known) =>
                /\ call'.ret = TRUE
                /\ call'.unit[1] \notin proc[call'.process].units
                /\ proc'[call'.process].units =
                      proc[call'.process].units \cup {call'.unit[1]}]_vars

\* a unit was rejected by a process that holds units
C9_Witness ==
    /\ Called
    /\ call.ret = FALSE
    /\ ~ call.compliant
    /\ proc[call.process].units # {}

(***************************************************************************)
(* Two replicas in LINEAR_ORDERING mode that are fed the same units        *)
(* (specification SpecDet).  Both receive the same timing decisions; each  *)
(* iterates its set unordered_units in an order of its own, as two         *)
(* interpreters with different hash seeds do.                              *)
(***************************************************************************)
Replicas == {0, 1}

InitDet ==
    /\ proc \in { [p \in Replicas |-> Process(p, UserDB(l), "LINEAR_ORDERING")] :
                    l \in InitialLedgers }
    /\ call = NoCall
    /\ net = NoNet

\* what the two posets contribute to the call add_unit_to_poset(U) of the
\* two replicas: the same timing units, an iteration order each
DetOracles(U) ==
    { o \in Oracles(proc[0], U) \X Oracles(proc[1], U) :
        o[1].timing = o[2].timing }

\* the same unit is handed to both replicas; the call recorded is the one
\* of replica 0, with whether the two iteration orders differed
FeedBoth(U, o) ==
    LET r0 == add_unit_to_poset(proc[0], U, o[1])
        r1 == add_unit_to_poset(proc[1], U, o[2])
    IN  /\ proc' = [proc EXCEPT ![0] = r0.s, ![1] = r1.s]
        /\ call' = [c |-> CallRecord(proc[0], U, o[1], r0),
                    diverse |-> o[1].iteration # o[2].iteration]
        /\ UNCHANGED net

NextDet ==
    \E U \in Candidates(proc[0].units) :
        \E o \in DetOracles(U) : FeedBoth(U, o)

SpecDet == InitDet /\ [][NextDet]_vars

\* C2: two processes in LINEAR_ORDERING mode that were fed the same
\* sequence of units with the same timing decisions hold the same
\* linear_order, element for element.
C2_Deterministic ==
    \A p, q \in Replicas \cap DOMAIN proc :
        proc[p].linear_order = proc[q].linear_order

\* a timing unit was elected, the replicas iterated their unordered units
\* in different orders, and two units of one level were ordered
C2_Witness ==
    /\ DOMAIN proc = Replicas
    /\ call # NoCall
    /\ call.diverse
    /\ call.c.timing # <<>>
    /\ \E i, j \in DOMAIN proc[0].linear_order :
          /\ i # j
          /\ level(proc[0].linear_order[i]) = level(proc[0].linear_order[j])

(***************************************************************************)
(* Gossip (network.py).  sync is the initiator's side of a sync and        *)
(* listen_handler the target's side; both work on the poset of their       *)
(* process.  A step of the model is the code between two awaits.           *)
(***************************************************************************)
N_RECV_SYNC == 5

\* spec (section 4.2): for each creator the largest height admitted (-1
\* when the poset holds no unit of the creator) and the hashes at that height
get_max_heights_hashes(S) ==
    LET by(c) == { V \in S : V.creator_id = c }
        top(c) == IF by(c) = {} THEN -1 ELSE Max({ Height(V) : V \in by(c) })
    IN  [heights |-> [c \in ProcessIds |-> top(c)],
         hashes |-> [c \in ProcessIds |-> { V \in by(c) : Height(V) = top(c) }]]

RECURSIVE SortByHeight(_)
SortByHeight(S) ==
    IF S = {} THEN <<>>
    ELSE LET m == CHOOSE x \in S : \A y \in S \ {x} :
                      \/ Height(x) < Height(y)
                      \/ Height(x) = Height(y) /\ UnitCmp(x, y) < 0
         IN  <<m>> \o SortByHeight(S \ {m})

\* spec (section 4.2): the units of a creator between two heights, in
\* ascending height, all branches included
units_by_height(S, creator_id, min_height, max_height) ==
    SortByHeight({ V \in S : /\ V.creator_id = creator_id
                             /\ Height(V) >= min_height
                             /\ Height(V) <= max_height })

\* the parents travel as their hashes
unit_to_dict(U) ==
    [creator_id |-> U.creator_id,
     parents_hashes |-> U.parents,
     txs |-> U.txs,
     signature |-> U.signature]

RECURSIVE units_to_send_from(_, _, _, _)
units_to_send_from(S, int_heights, ex_heights, i) ==
    IF i >= n_processes THEN <<>>
    ELSE (IF int_heights[i] > ex_heights[i]
          THEN LET units == units_by_height(S, i, ex_heights[i] + 1,
                                            int_heights[i])
               IN  [k \in DOMAIN units |-> unit_to_dict(units[k])]
          ELSE <<>>)
         \o units_to_send_from(S, int_heights, ex_heights, i + 1)

\* send_ind and units_to_send: creator after creator, each creator's units
\* in ascending height
units_to_send(S, int_heights, ex_heights) ==
    units_to_send_from(S, int_heights, ex_heights, 0)

RECURSIVE add_received(_, _, _)
\* the loop over units_recieved: "assertion" when a parent of a unit is not
\* in the poset (AssertionError), "abort" when the unit is in the poset
\* already (return), "added" when the loop ran to its end
add_received(s, units_recieved, i) ==
    IF i > Len(units_recieved) THEN [s |-> s, outcome |-> "added"]
    ELSE LET unit == units_recieved[i]
         IN  IF \E k \in DOMAIN unit.parents_hashes :
                    unit.parents_hashes[k] \notin s.units
             THEN [s |-> s, outcome |-> "assertion"]
             ELSE LET U == Unit(unit.creator_id, unit.parents_hashes,
                                unit.txs, unit.signature)
                  IN  IF U \notin s.units
                      THEN add_received(poset_add_unit(s, U),
                                        units_recieved, i + 1)
                      ELSE [s |-> s, outcome |-> "abort"]

\* the processes that gossip, those of them whose callers hand them units
\* (the others learn units by gossip alone), the number of syncs that may
\* be in progress at once, and the number of units handed to a process
NetProcs == {0, 1}

Fed == {0}

MaxSessions == 1

NetMaxUnits == 6

NoSession == [ipc |-> "none"]

\* a sync in progress: where sync (ipc) and listen_handler (tpc) stand, the
\* local variables they keep across awaits, and the messages on their way
Session(initiator_id, target_id, h) ==
    [ipc |-> "await_heights",
     tpc |-> "connected",
     initiator |-> initiator_id,
     target |-> target_id,
     int_heights |-> h.heights,
     t_int_heights |-> <<>>,
     t_ex_heights |-> <<>>,
     to_target |-> << [kind |-> "heights", id |-> initiator_id,
                       heights |-> h.heights, hashes |-> h.hashes] >>,
     to_initiator |-> <<>>]

\* a sync is forgotten once both of its sides have ended
Ended(ss) == IF ss.ipc = "ended" /\ ss.tpc = "ended" THEN NoSession ELSE ss

\* the units a caller hands to a process whose poset holds S: a genesis
\* unit, or a unit on a maximal unit of its creator and a maximal unit of
\* another creator
NetCandidates(S) ==
    LET tops == get_max_heights_hashes(S).hashes
    IN  { U \in GenesisUnits \cup
                UNION { { Unit(c, <<P, V>>, <<>>, TRUE) :
                            P \in tops[c],
                            V \in UNION { tops[d] : d \in ProcessIds \ {c} } } :
                        c \in ProcessIds } :
            U \notin S /\ check_compliance(S, U) }

InitNet ==
    /\ proc \in { [p \in NetProcs |-> Process(p, UserDB(l), "NONE")] :
                    l \in InitialLedgers }
    /\ call = NoCall
    /\ net = [sessions |-> [k \in 1 .. MaxSessions |-> NoSession],
              n_recv_syncs |-> [p \in NetProcs |-> 0]]

\* a caller (the creator loop, a test script) admits a unit
Feed(p, U) ==
    LET o == CHOOSE x \in Oracles(proc[p], U) : TRUE
        r == add_unit_to_poset(proc[p], U, o)
    IN  /\ Cardinality(proc[p].units) < NetMaxUnits
        /\ proc' = [proc EXCEPT ![p] = r.s]
        /\ call' = [op |-> "feed", process |-> p]
        /\ UNCHANGED net

\* sync, lines 106-117: the connection is open, the heights are read from
\* the poset and sent
SyncConnect(k, i, t) ==
    /\ i # t
    /\ net.sessions[k] = NoSession
    /\ \A j \in 1 .. (k - 1) : net.sessions[j] # NoSession
    /\ net' = [net EXCEPT !.sessions[k] =
                  Session(i, t, get_max_heights_hashes(proc[i].units))]
    /\ call' = [op |-> "sync_connect", process |-> i]
    /\ UNCHANGED proc

\* listen_handler, lines 19-28: the connection is turned away when too many
\* syncs are being served, and counted otherwise
ListenAccept(k) ==
    LET ss == net.sessions[k]
    IN  /\ ss.ipc # "none"
        /\ ss.tpc = "connected"
        /\ IF net.n_recv_syncs[ss.target] > N_RECV_SYNC
           THEN /\ net' = [net EXCEPT !.sessions[k] =
                              Ended([ss EXCEPT !.tpc = "ended"])]
                /\ call' = [op |-> "listen_reject", process |-> ss.target]
           ELSE /\ net' = [net EXCEPT
                              !.sessions[k] = [ss EXCEPT !.tpc = "await_heights"],
                              !.n_recv_syncs[ss.target] = @ + 1]
                /\ call' = [op |-> "listen_accept", process |-> ss.target]
        /\ UNCHANGED proc

\* listen_handler, lines 31-48: the heights of the initiator arrive, the
\* own heights are read from the poset and sent
ListenHeights(k) ==
    LET ss == net.sessions[k]
    IN  /\ ss.ipc # "none"
        /\ ss.tpc = "await_heights"
        /\ ss.to_target # <<>>
        /\ LET m == Head(ss.to_target)
               h == get_max_heights_hashes(proc[ss.target].units)
           IN  IF m.id = ss.target \/ m.id \notin ProcessIds
               THEN net' = [net EXCEPT !.sessions[k] =
                               Ended([ss EXCEPT !.tpc = "ended",
                                                !.to_target = Tail(@)])]
               ELSE net' = [net EXCEPT !.sessions[k] =
                               [ss EXCEPT
                                  !.tpc = "await_units",
                                  !.to_target = Tail(@),
                                  !.t_ex_heights = m.heights,
                                  !.t_int_heights = h.heights,
                                  !.to_initiator = Append(@,
                                      [kind |-> "heights", id |-> ss.target,
                                       heights |-> h.heights,
                                       hashes |-> h.hashes])]]
        /\ call' = [op |-> "listen_heights", process |-> ss.target]
        /\ UNCHANGED proc

\* sync, lines 122-142: the heights of the target arrive and the units the
\* target lacks are sent
SyncSendUnits(k) ==
    LET ss == net.sessions[k]
    IN  /\ ss.ipc = "await_heights"
        /\ ss.to_initiator # <<>>
        /\ LET m == Head(ss.to_initiator)
           IN  IF m.id # ss.target
               THEN net' = [net EXCEPT !.sessions[k] =
                               Ended([ss EXCEPT !.ipc = "ended",
                                                !.to_initiator = Tail(@)])]
               ELSE net' = [net EXCEPT !.sessions[k] =
                               [ss EXCEPT
                                  !.ipc = "await_units",
                                  !.to_initiator = Tail(@),
                                  !.to_target = Append(@,
                                      [kind |-> "units",
                                       units |-> units_to_send(
                                                   proc[ss.initiator].units,
                                                   ss.int_heights,
                                                   m.heights)])]]
        /\ call' = [op |-> "sync_send", process |-> ss.initiator]
        /\ UNCHANGED proc

\* listen_handler, lines 52-88: the units of the initiator arrive and are
\* added; when all were added, the units the initiator lacks are sent and
\* the sync is counted as over.  An AssertionError ends the handler where
\* it stands.
ListenReceive(k) ==
    LET ss == net.sessions[k]
    IN  /\ ss.ipc # "none"
        /\ ss.tpc = "await_units"
        /\ ss.to_target # <<>>
        /\ LET m == Head(ss.to_target)
               r == add_received(proc[ss.target], m.units, 1)
               reply == [kind |-> "units",
                         units |-> units_to_send(r.s.units, ss.t_int_heights,
                                                 ss.t_ex_heights)]
           IN  /\ proc' = [proc EXCEPT ![ss.target] = r.s]
               /\ net' = [net EXCEPT
                            !.sessions[k] =
                                Ended([ss EXCEPT
                                         !.tpc = "ended",
                                         !.to_target = Tail(@),
                                         !.to_initiator =
                                            IF r.outcome = "added"
                                            THEN Append(@, reply) ELSE @]),
                            !.n_recv_syncs[ss.target] =
                                IF r.outcome = "assertion" THEN @ ELSE @ - 1]
               /\ call' = [op |-> "listen_receive",
                           process |-> ss.target,
                           peer |-> ss.initiator,
                           outcome |-> r.outcome,
                           int_heights |-> ss.t_int_heights,
                           ex_heights |-> ss.t_ex_heights]

\* sync, lines 146-165: the units of the target arrive and are added
SyncReceive(k) ==
    LET ss == net.sessions[k]
    IN  /\ ss.ipc = "await_units"
        /\ ss.to_initiator # <<>>
        /\ LET m == Head(ss.to_initiator)
               r == add_received(proc[ss.initiator], m.units, 1)
           IN  /\ proc' = [proc EXCEPT ![ss.initiator] = r.s]
               /\ net' = [net EXCEPT !.sessions[k] =
                             Ended([ss EXCEPT !.ipc = "ended",
                                              !.to_initiator = Tail(@)])]
               /\ call' = [op |-> "sync_receive",
                           process |-> ss.initiator,
                           peer |-> ss.target,
                           outcome |-> r.outcome]

\* sync, lines 122 and 146: the target has closed the connection without
\* an answer and readuntil raises
SyncPeerClosed(k) ==
    LET ss == net.sessions[k]
    IN  /\ ss.ipc \in {"await_heights", "await_units"}
        /\ ss.tpc = "ended"
        /\ ss.to_initiator = <<>>
        /\ net' = [net EXCEPT !.sessions[k] = Ended([ss EXCEPT !.ipc = "ended"])]
        /\ call' = [op |-> "sync_failed", process |-> ss.initiator]
        /\ UNCHANGED proc

NextNet ==
    \/ \E p \in Fed : \E U \in NetCandidates(proc[p].units) : Feed(p, U)
    \/ \E k \in 1 .. MaxSessions : \E i, t \in NetProcs : SyncConnect(k, i, t)
    \/ \E k \in 1 .. MaxSessions : ListenAccept(k)
    \/ \E k \in 1 .. MaxSessions : ListenHeights(k)
    \/ \E k \in 1 .. MaxSessions : SyncSendUnits(k)
    \/ \E k \in 1 .. MaxSessions : ListenReceive(k)
    \/ \E k \in 1 .. MaxSessions : SyncReceive(k)
    \/ \E k \in 1 .. MaxSessions : SyncPeerClosed(k)

SpecNet == InitNet /\ [][NextNet]_vars

\* C10: when the initiator of a sync was several (two or more) heights
\* ahead of the target on every creator, the target has added every unit
\* of the batch
\* (the sync did not end early) and its maximal heights are the heights the
\* initiator had before the sync.
C10_StaleSyncCatchesUp ==
    ( /\ call.op = "listen_receive"
      /\ \A c \in ProcessIds :
            call.ex_heights[c] >= call.int_heights[c] + 2 )
    => /\ call.outcome = "added"
       /\ get_max_heights_hashes(proc[call.process].units).heights
             = call.ex_heights

(***************************************************************************)
(* A faulty peer (specification SpecByz).  Process 0 is in the address     *)
(* book of process 1 and opens syncs like sync does, but the list of units *)
(* it sends is of its own making and it adds no unit to a poset.  Process  *)
(* 1 runs listen_handler.                                                  *)
(***************************************************************************)
ByzMaxUnits == 3

\* the lists of units the faulty peer sends to a target whose poset holds
\* S: a unit of its own that breaks a compliance rule, alone or followed by
\* a unit that breaks none
ForgedBatches(S) ==
    LET own == { M \in Malformed(S) : M.creator_id = 0 }
    IN  { <<unit_to_dict(M)>> : M \in own }
        \cup { <<unit_to_dict(M), unit_to_dict(G)>> :
                 M \in own, G \in NetCandidates(S) }

\* a caller of process 1 admits a unit
ByzFeed(U) ==
    /\ Cardinality(proc[1].units) < ByzMaxUnits
    /\ Feed(1, U)

\* the faulty peer answers the heights of the target with its list
ByzSendUnits(k, units) ==
    LET ss == net.sessions[k]
    IN  /\ ss.ipc = "await_heights"
        /\ ss.to_initiator # <<>>
        /\ Cardinality(proc[ss.target].units) < ByzMaxUnits
        /\ net' = [net EXCEPT !.sessions[k] =
                      [ss EXCEPT !.ipc = "await_units",
                                 !.to_initiator = Tail(@),
                                 !.to_target = Append(@,
                                     [kind |-> "units", units |-> units])]]
        /\ call' = [op |-> "forged_send", process |-> ss.initiator]
        /\ UNCHANGED proc

\* the faulty peer closes the connection once the target has answered or
\* ended; it adds nothing to a poset
ByzClose(k) ==
    LET ss == net.sessions[k]
    IN  /\ ss.ipc \in {"await_heights", "await_units"}
        /\ ss.tpc = "ended"
        /\ net' = [net EXCEPT !.sessions[k] = NoSession]
        /\ call' = [op |-> "forged_close", process |-> ss.initiator]
        /\ UNCHANGED proc

NextByz ==
    \/ \E U \in NetCandidates(proc[1].units) : ByzFeed(U)
    \/ \E k \in 1 .. MaxSessions : SyncConnect(k, 0, 1)
    \/ \E k \in 1 .. MaxSessions : ListenAccept(k)
    \/ \E k \in 1 .. MaxSessions : ListenHeights(k)
    \/ \E k \in 1 .. MaxSessions :
          \E b \in ForgedBatches(proc[1].units) : ByzSendUnits(k, b)
    \/ \E k \in 1 .. MaxSessions : ListenReceive(k)
    \/ \E k \in 1 .. MaxSessions : ByzClose(k)

SpecByz == InitNet /\ [][NextByz]_vars

\* C11: a unit received in a sync is admitted only after it has passed the
\* compliance check (a unit that fails it ends the sync, and neither it nor
\* a unit after it in the list is admitted): every unit in the poset of a
\* process passes the compliance check against that poset.
C11_AdmittedOnlyIfCompliant ==
    \A p \in DOMAIN proc :
        \A U \in proc[p].units : check_compliance(proc[p].units, U)

(***************************************************************************)
(* Gossip under the scheduling of the event loop (specification SpecLive). *)
(* A coroutine whose awaited message has arrived is resumed: the steps of  *)
(* sync and listen_handler are weakly fair.  Nothing obliges a caller to   *)
(* hand over units or to start a sync, and nothing in listen_handler       *)
(* closes the connection, so SyncPeerClosed is not fair.                   *)
(***************************************************************************)
LiveMaxUnits == 3

LiveFeed(p, U) ==
    /\ Cardinality(proc[p].units) < LiveMaxUnits
    /\ Feed(p, U)

NextLive ==
    \/ \E p \in Fed : \E U \in NetCandidates(proc[p].units) : LiveFeed(p, U)
    \/ \E k \in 1 .. MaxSessions : \E i, t \in NetProcs : SyncConnect(k, i, t)
    \/ \E k \in 1 .. MaxSessions : ListenAccept(k)
    \/ \E k \in 1 .. MaxSessions : ListenHeights(k)
    \/ \E k \in 1 .. MaxSessions : SyncSendUnits(k)
    \/ \E k \in 1 .. MaxSessions : ListenReceive(k)
    \/ \E k \in 1 .. MaxSessions : SyncReceive(k)
    \/ \E k \in 1 .. MaxSessions : SyncPeerClosed(k)

SpecLive ==
    /\ InitNet
    /\ [][NextLive]_vars
    /\ WF_vars(\E k \in 1 .. MaxSessions : ListenAccept(k))
    /\ WF_vars(\E k \in 1 .. MaxSessions : ListenHeights(k))
    /\ WF_vars(\E k \in 1 .. MaxSessions : SyncSendUnits(k))
    /\ WF_vars(\E k \in 1 .. MaxSessions : ListenReceive(k))
    /\ WF_vars(\E k \in 1 .. MaxSessions : SyncReceive(k))

\* the units of S a side with heights int_heights owes a peer that
\* reported ex_heights, as they travel
Owed(S, int_heights, ex_heights) ==
    { unit_to_dict(V) :
        V \in { W \in S : /\ int_heights[W.creator_id] > ex_heights[W.creator_id]
                          /\ Height(W) > ex_heights[W.creator_id]
                          /\ Height(W) <= int_heights[W.creator_id] } }

Exactly(units, owed) ==
    /\ Range(units) = owed
    /\ Len(units) = Cardinality(owed)

\* the list each side sends holds exactly the units it owes the peer
BatchesAsOwed ==
    \A k \in 1 .. MaxSessions :
        LET ss == net.sessions[k]
            tt == net'.sessions[k]
        IN  /\ (ss.ipc = "await_heights" /\ tt.ipc = "await_units")
                  => Exactly(tt.to_target[Len(tt.to_target)].units,
                             Owed(proc[ss.initiator].units, ss.int_heights,
                                  Head(ss.to_initiator).heights))
            /\ (ss.ipc # "none" /\ ss.tpc = "await_units" /\ tt.ipc # "none"
                  /\ Len(tt.to_initiator) > Len(ss.to_initiator))
                  => Exactly(tt.to_initiator[Len(tt.to_initiator)].units,
                             Owed(proc'[ss.target].units, ss.t_int_heights,
                                  ss.t_ex_heights))

Kinds(msgs) == [j \in DOMAIN msgs |-> msgs[j].kind]

\* heights(initiator), heights(target), units(initiator), units(target)
MessagesInOrder ==
    \A k \in 1 .. MaxSessions :
        LET ss == net.sessions[k]
        IN  ss.ipc # "none" =>
              /\ Kinds(ss.to_target) \in
                    { <<>>, <<"heights">>, <<"units">>, <<"heights", "units">> }
              /\ Kinds(ss.to_initiator) \in { <<>>, <<"heights">>, <<"units">> }
              /\ ss.tpc \in {"connected", "await_heights"}
                    => ss.to_initiator = <<>> /\ ss.ipc = "await_heights"
              /\ ss.ipc = "await_heights" => Kinds(ss.to_target) \in
                                                { <<>>, <<"heights">> }
              /\ Kinds(ss.to_initiator) = <<"units">>
                    => ss.tpc = "ended" /\ ss.to_target = <<>>

\* a sync that was started comes to its end on both sides
SyncsEnd ==
    \A k \in 1 .. MaxSessions :
        (net.sessions[k] # NoSession) ~> (net.sessions[k] = NoSession)

\* C12: each side sends exactly the units it owes the peer by the heights
\* exchanged, the four messages travel in the order heights(initiator),
\* heights(target), units(initiator), units(target), and neither side
\* waits for the other forever.
C12_SyncProtocol ==
    /\ [][BatchesAsOwed]_vars
    /\ []MessagesInOrder
    /\ SyncsEnd

(***************************************************************************)
(* A listener with many inbound connections (specification SpecCap).       *)
(* Process 0 starts syncs against the listener of process 1, one after     *)
(* another without waiting for the earlier ones, as dispatch_syncs does.   *)
(* The posets stay empty.                                                  *)
(***************************************************************************)
CapSessions == N_RECV_SYNC + 1

InitCap ==
    /\ proc \in { [p \in NetProcs |-> Process(p, UserDB(l), "NONE")] :
                    l \in InitialLedgers }
    /\ call = NoCall
    /\ net = [sessions |-> [k \in 1 .. CapSessions |-> NoSession],
              n_recv_syncs |-> [p \in NetProcs |-> 0]]

NextCap ==
    \/ \E k \in 1 .. CapSessions : SyncConnect(k, 0, 1)
    \/ \E k \in 1 .. CapSessions : ListenAccept(k)
    \/ \E k \in 1 .. CapSessions : ListenHeights(k)
    \/ \E k \in 1 .. CapSessions : SyncSendUnits(k)
    \/ \E k \in 1 .. CapSessions : ListenReceive(k)
    \/ \E k \in 1 .. CapSessions : SyncReceive(k)

SpecCap == InitCap /\ [][NextCap]_vars

\* the syncs the listener of process t is serving
InFlight(t) ==
    { k \in DOMAIN net.sessions :
        /\ net.sessions[k].ipc # "none"
        /\ net.sessions[k].target = t
        /\ net.sessions[k].tpc \in {"await_heights", "await_units"} }

\* a connection is taken into service only while fewer than N_RECV_SYNC
\* syncs are being served
AcceptedBelowCap ==
    \A k \in DOMAIN net.sessions :
        ( /\ net.sessions[k].ipc # "none"
          /\ net.sessions[k].tpc = "connected"
          /\ net'.sessions[k].tpc = "await_heights" )
        => Cardinality(InFlight(net.sessions[k].target)) < N_RECV_SYNC

\* C13: a listener serves at most N_RECV_SYNC inbound syncs at once, and a
\* connection that arrives while N_RECV_SYNC syncs are being served is
\* turned away.
C13_InboundCap ==
    /\ [](\A t \in NetProcs : Cardinality(InFlight(t)) <= N_RECV_SYNC)
    /\ [][AcceptedBelowCap]_vars

(***************************************************************************)
(* The choice of the peer to sync with (specification SpecChoose).  The    *)
(* process is taken with any strategy, any number of syncs behind it and   *)
(* any record of the last sync with each peer; Choose applies              *)
(* choose_process_to_sync_with to it.                                      *)
(***************************************************************************)
MaxSyncId == 3

GossipStrategies == {"unif_random", "non_recent_random", "round_robin"}

\* choose_process_to_sync_with that takes every peer under non_recent_random
sync_candidates_any_peer(s) ==
    ProcessIds \ {s.process_id}

\* lines 219-234: the peers random.choice picks from
sync_candidates(s) ==
    IF s.gossip_strategy = "unif_random"
    THEN ProcessIds \ {s.process_id}
    ELSE LET threshold == n_processes \div 3
         IN  { process_id \in ProcessIds :
                 /\ process_id # s.process_id
                 /\ LET last_sync == s.last_synced_with_process[process_id]
                    IN  last_sync = -1 \/ s.sync_id - last_sync >= threshold }

\* the outcomes of a call: a peer returned, or an exception (the assertion
\* of line 235 for a strategy that is not supported, IndexError of
\* random.choice for an empty list)
choose_process_to_sync_with(s) ==
    IF s.gossip_strategy \notin {"unif_random", "non_recent_random"}
    THEN { [raised |-> TRUE, ret |-> -1] }
    ELSE IF sync_candidates(s) = {}
    THEN { [raised |-> TRUE, ret |-> -1] }
    ELSE { [raised |-> FALSE, ret |-> q] : q \in sync_candidates(s) }

\* the records of the last syncs of process q after n syncs
LastSynced(q, n) ==
    { f \in [ProcessIds -> -1 .. MaxSyncId] :
        \A c \in ProcessIds : f[c] <= n /\ (c = q => f[c] = -1) }

InitChoose ==
    /\ proc \in
         UNION { { [p \in {q} |->
                     [Process(q, UserDB(l), "NONE") EXCEPT
                        !.gossip_strategy = g,
                        !.sync_id = n,
                        !.last_synced_with_process = last] ] :
                   l \in InitialLedgers, g \in GossipStrategies,
                   last \in LastSynced(q, n) } :
                 q \in ProcessIds, n \in 0 .. MaxSyncId }
    /\ call = NoCall
    /\ net = NoNet

Choose(p, r) ==
    /\ call' = [op |-> "choose_process_to_sync_with", process |-> p,
                raised |-> r.raised, ret |-> r.ret]
    /\ UNCHANGED <<proc, net>>

NextChoose ==
    \E p \in DOMAIN proc :
        \E r \in choose_process_to_sync_with(proc[p]) : Choose(p, r)

SpecChoose == InitChoose /\ [][NextChoose]_vars

Chosen ==
    call.op = "choose_process_to_sync_with" /\ ~ call.raised

UNITS_LIMIT == 3

SYNCS_LIMIT == 2

LEVEL_LIMIT == 1

RunMaxUnits == 7

\* spec (section 4.5): Poset.create_unit links the maximal own unit with a
\* maximal unit of another creator so that the unit is compliant; the
\* first own unit has no parents
create_unit(S, process_id) ==
    { U \in NetCandidates(S) : U.creator_id = process_id }

InitRun ==
    /\ proc \in { [p \in {0} |-> Process(p, UserDB(l), "NONE")] :
                    l \in InitialLedgers }
    /\ call = NoCall
    /\ net = [cpc |-> "loop", created_count |-> 0, max_level_reached |-> FALSE,
              dpc |-> "loop", sync_count |-> 0, syncing_tasks |-> <<>>,
              rpc |-> "gather", listener |-> "serving"]

\* create_add, lines 243-271: one turn of the loop that creates new_unit
CreateUnit(p, new_unit) ==
    LET r == add_unit_to_poset(proc[p], new_unit,
                               CHOOSE o \in Oracles(proc[p], new_unit) : TRUE)
    IN  /\ net.cpc = "loop"
        /\ net.created_count # UNITS_LIMIT /\ ~ net.max_level_reached
        /\ proc' = [proc EXCEPT ![p] = r.s]
        /\ net' = [net EXCEPT
                     !.created_count = @ + 1,
                     !.max_level_reached = @ \/ level(new_unit) = LEVEL_LIMIT]
        /\ call' = [op |-> "create_add", process |-> p,
                    level |-> level(new_unit)]

\* create_add, lines 243-271: a turn of the loop in which create_unit
\* returns None
CreateNone(p) ==
    /\ net.cpc = "loop"
    /\ net.created_count # UNITS_LIMIT /\ ~ net.max_level_reached
    /\ create_unit(proc[p].units, p) = {}
    /\ call' = [op |-> "create_none", process |-> p]
    /\ UNCHANGED <<proc, net>>

\* create_add, lines 243 and 274-279: the loop is left
CreateStop(p) ==
    /\ net.cpc = "loop"
    /\ ~ (net.created_count # UNITS_LIMIT /\ ~ net.max_level_reached)
    /\ proc' = [proc EXCEPT ![p].keep_syncing = FALSE]
    /\ net' = [net EXCEPT !.cpc = "done"]
    /\ call' = [op |-> "create_stop", process |-> p]

\* the listener or a sync admits a unit of another creator
ReceiveUnit(p, U) ==
    /\ net.rpc = "gather"
    /\ Cardinality(proc[p].units) < RunMaxUnits
    /\ proc' = [proc EXCEPT ![p] = poset_add_unit(@, U)]
    /\ call' = [op |-> "receive", process |-> p]
    /\ UNCHANGED net

\* dispatch_syncs, lines 286-293: one turn of the loop; the task of the
\* new sync is pending.  An exception of choose_process_to_sync_with ends
\* dispatch_syncs.
DispatchSync(p, r) ==
    /\ net.dpc = "loop"
    /\ net.sync_count # SYNCS_LIMIT /\ proc[p].keep_syncing
    /\ net' = IF r.raised
              THEN [net EXCEPT !.sync_count = @ + 1, !.dpc = "raised"]
              ELSE [net EXCEPT !.sync_count = @ + 1,
                               !.syncing_tasks = Append(@, "pending")]
    /\ call' = [op |-> "dispatch_sync", process |-> p]
    /\ UNCHANGED proc

\* a sync task comes to its end: sync returns, or raises (the connection
\* is refused, an assertion fails, the peer closes the connection)
SyncTaskEnds(k, outcome) ==
    /\ k \in DOMAIN net.syncing_tasks
    /\ net.syncing_tasks[k] = "pending"
    /\ net' = [net EXCEPT !.syncing_tasks[k] = outcome]
    /\ call' = [op |-> "sync_task", task |-> k]
    /\ UNCHANGED proc

\* dispatch_syncs, lines 286 and 296: the loop is left for gather
DispatchGather(p) ==
    /\ net.dpc = "loop"
    /\ ~ (net.sync_count # SYNCS_LIMIT /\ proc[p].keep_syncing)
    /\ net' = [net EXCEPT !.dpc = "gather"]
    /\ call' = [op |-> "dispatch_gather", process |-> p]
    /\ UNCHANGED proc

\* dispatch_syncs, lines 296-302: gather raises the exception of a task
\* that raised and returns once all tasks have returned
DispatchGathered(p) ==
    /\ net.dpc = "gather"
    /\ \/ \E k \in DOMAIN net.syncing_tasks : net.syncing_tasks[k] = "raised"
       \/ \A k \in DOMAIN net.syncing_tasks : net.syncing_tasks[k] = "returned"
    /\ net' = [net EXCEPT !.dpc =
                  IF \E k \in DOMAIN net.syncing_tasks :
                        net.syncing_tasks[k] = "raised"
                  THEN "raised" ELSE "done"]
    /\ call' = [op |-> "dispatch_gathered", process |-> p]
    /\ UNCHANGED proc

\* run, lines 318-322: gather raises the exception of dispatch_syncs, or
\* returns once both tasks are done, and then the listener is cancelled
RunGathered(p) ==
    /\ net.rpc = "gather"
    /\ net.dpc = "raised" \/ (net.dpc = "done" /\ net.cpc = "done")
    /\ net' = IF net.dpc = "raised"
              THEN [net EXCEPT !.rpc = "raised"]
              ELSE [net EXCEPT !.rpc = "done", !.listener = "cancelled"]
    /\ call' = [op |-> "run_gathered", process |-> p]
    /\ UNCHANGED proc

NextRun ==
    \/ \E U \in create_unit(proc[0].units, 0) : CreateUnit(0, U)
    \/ CreateNone(0)
    \/ CreateStop(0)
    \/ \E U \in { V \in NetCandidates(proc[0].units) : V.creator_id # 0 } :
          ReceiveUnit(0, U)
    \/ \E r \in choose_process_to_sync_with(proc[0]) : DispatchSync(0, r)
    \/ \E k \in 1 .. SYNCS_LIMIT :
          \E outcome \in {"returned", "raised"} : SyncTaskEnds(k, outcome)
    \/ DispatchGather(0)
    \/ DispatchGathered(0)
    \/ RunGathered(0)

SpecRun == InitRun /\ [][NextRun]_vars

\* the creator loop will take another turn
CreatorGoesOn ==
    /\ net.cpc = "loop"
    /\ net.created_count # UNITS_LIMIT
    /\ ~ net.max_level_reached

\* C15: once the poset of the process holds a unit of level LEVEL_LIMIT,
\* the creator loop comes to its end, whether or not a unit of the process
\* itself has level LEVEL_LIMIT exactly: the loop does not go on once the
\* process has created a unit of level LEVEL_LIMIT or more (the levels of
\* its later units are not smaller).
C15_LevelLimitStopsCreator ==
    CreatorGoesOn =>
        \A p \in DOMAIN proc :
            \A U \in proc[p].units :
                U.creator_id = p => level(U) < LEVEL_LIMIT

TasksEnded ==
    \A k \in DOMAIN net.syncing_tasks : net.syncing_tasks[k] # "pending"

\* no sync is started once keep_syncing is false
NoSyncAfterStop ==
    \A p \in DOMAIN proc :
        ~ proc[p].keep_syncing => net'.sync_count = net.sync_count

\* C16: once the creator loop has stopped keep_syncing is false, no sync
\* is started any more, the syncs started are awaited and run then cancels
\* the listener and ends; at most UNITS_LIMIT units are created and at
\* most SYNCS_LIMIT syncs are started.
C16_Shutdown ==
    /\ [](net.cpc = "done" => \A p \in DOMAIN proc : ~ proc[p].keep_syncing)
    /\ [][NoSyncAfterStop]_vars
    /\ [](net.created_count <= UNITS_LIMIT /\ net.sync_count <= SYNCS_LIMIT)
    /\ [](net.rpc # "gather" =>
            /\ net.cpc = "done"
            /\ TasksEnded
            /\ net.rpc = "done"
            /\ net.listener = "cancelled")

\* C20: a sync that raises does not end dispatch_syncs or run with its
\* exception: after it the dispatcher still starts the syncs it has to
\* start, and run ends by cancelling the listener.
C20_SyncFailureContained ==
    (\E k \in DOMAIN net.syncing_tasks : net.syncing_tasks[k] = "raised")
        => /\ net.dpc # "raised"
           /\ net.rpc # "raised"


(***************************************************************************)
(* Forker flags, the extension of the linear order and the validation      *)
(* modes, under Spec.                                                      *)
(***************************************************************************)
\* is_forker[c] holds for every creator c with two admitted units of the
\* same height
ForkersFlagged ==
    \A p \in DOMAIN proc :
        \A c \in Forkers(proc[p].units) : proc[p].is_forker[c]

\* a flag that is set stays set
FlagsStaySet ==
    \A p \in DOMAIN proc :
        \A c \in ProcessIds : proc[p].is_forker[c] => proc'[p].is_forker[c]

\* C17: from the moment a process has admitted two distinct units of one
\* creator at the same height its is_forker flag of that creator is true,
\* and a flag that is true stays true.
C17_ForkerFlag == []ForkersFlagged /\ [][FlagsStaySet]_vars


\* the units a step appends to the linear order of the process p
Appended(p) ==
    SubSeq(proc'[p].linear_order,
           Len(proc[p].linear_order) + 1, Len(proc'[p].linear_order))

\* the units of the set pool that are below one of the timing units
BelowTiming(pool, timing) ==
    { V \in pool : \E i \in DOMAIN timing : below(V, timing[i]) }

\* a call that elects timing units appends the not-yet-ordered units below
\* them, each once, takes them out of unordered_units and keeps the rest
ExtendsBelowTiming ==
    (call'.op = "add_unit_to_poset" /\ call'.timing # <<>>) =>
        LET p == call'.process
            pool == proc[p].unordered_units \cup Range(call'.unit)
            due == BelowTiming(pool, call'.timing)
        IN  /\ Len(proc'[p].linear_order) >= Len(proc[p].linear_order)
            /\ SubSeq(proc'[p].linear_order, 1, Len(proc[p].linear_order))
                 = proc[p].linear_order
            /\ Range(Appended(p)) = due
            /\ Len(Appended(p)) = Cardinality(due)
            /\ proc'[p].unordered_units = pool \ due

\* C18: when a timing unit T is elected, every admitted not-yet-ordered
\* unit below T is appended to the linear order in that step and removed
\* from unordered_units, no unit that is not below T is appended, and the
\* linear order as it was before the step remains an unchanged prefix.
C18_ExtendBelowTiming == [][ExtendsBelowTiming]_vars

\* a timing unit was elected after an earlier one, units were appended to
\* the linear order and a unit that is not below the timing unit stays
\* unordered
C18_Witness ==
    /\ call.op = "add_unit_to_poset"
    /\ call.timing # <<>>
    /\ Len(proc[call.process].timing_units) > Len(call.timing)
    /\ proc[call.process].linear_order # <<>>
    /\ proc[call.process].unordered_units # {}


\* what a step leaves alone on a process, by its validation mode
ModeFrame ==
    \A p \in DOMAIN proc :
        LET s == proc[p]
            t == proc'[p]
        IN  /\ t.validation_method = s.validation_method
            /\ s.validation_method = "SNAP" =>
                  /\ t.linear_order = s.linear_order
                  /\ t.unordered_units = s.unordered_units
            /\ s.validation_method = "LINEAR_ORDERING" =>
                  /\ t.pending_txs = s.pending_txs
                  /\ t.validated_transactions = s.validated_transactions
            /\ s.validation_method = "NONE" =>
                  /\ t.linear_order = s.linear_order
                  /\ t.unordered_units = s.unordered_units
                  /\ t.pending_txs = s.pending_txs
                  /\ t.validated_transactions = s.validated_transactions
                  /\ t.userDB = s.userDB

\* a new compliant unit is in the poset after the call, whatever the mode
AdmittedInEveryMode ==
    (call'.op = "add_unit_to_poset" /\ call'.unit # <<>>) =>
        /\ call'.unit[1] \notin proc[call'.process].units
        /\ proc'[call'.process].units
             = proc[call'.process].units \cup {call'.unit[1]}

\* C19: the validation modes are mutually exclusive per process: a process
\* in SNAP mode never changes linear_order or unordered_units, a process in
\* LINEAR_ORDERING mode never changes pending_txs or
\* validated_transactions, a process without validation method changes none
\* of these nor the ledger; the unit is admitted into the poset in all
\* three modes.
C19_ModesExclusive == [][ModeFrame /\ AdmittedInEveryMode]_vars

\* a process in SNAP mode has validated a transaction and holds a unit of
\* a level at which a process in LINEAR_ORDERING mode elects timing units;
\* its linear order is empty
C19_Witness ==
    \E p \in DOMAIN proc :
        /\ proc[p].validation_method = "SNAP"
        /\ proc[p].validated_transactions # <<>>
        /\ \E U \in proc[p].units : level(U) >= DecidingDepth
        /\ call.op = "add_unit_to_poset"
        /\ call.unit # <<>>
        /\ proc[p].linear_order = <<>>
        /\ proc[p].unordered_units = {}

(***************************************************************************)
(* Gossip between two processes that are both handed units (specification  *)
(* SpecGossip).  Creator 2 forks: it has two genesis units, and each of    *)
(* the two processes may be handed either.  The steps of sync and          *)
(* listen_handler are weakly fair, as in SpecLive.                         *)
(***************************************************************************)
GossipMaxUnits == 2

\* the units handed to the processes: the genesis unit of creator 0 and
\* two genesis units of creator 2
GossipUnits ==
    { Unit(0, <<>>, <<>>, TRUE),
      Unit(2, <<>>, <<>>, TRUE),
      Unit(2, <<>>, <<tx_AB60>>, TRUE) }

GossipFeed(p, U) ==
    /\ U \notin proc[p].units
    /\ Cardinality(proc[p].units) < GossipMaxUnits
    /\ Feed(p, U)

NextGossip ==
    \/ \E p \in NetProcs : \E U \in GossipUnits : GossipFeed(p, U)
    \/ \E k \in 1 .. MaxSessions : \E i, t \in NetProcs : SyncConnect(k, i, t)
    \/ \E k \in 1 .. MaxSessions : ListenAccept(k)
    \/ \E k \in 1 .. MaxSessions : ListenHeights(k)
    \/ \E k \in 1 .. MaxSessions : SyncSendUnits(k)
    \/ \E k \in 1 .. MaxSessions : ListenReceive(k)
    \/ \E k \in 1 .. MaxSessions : SyncReceive(k)
    \/ \E k \in 1 .. MaxSessions : SyncPeerClosed(k)

SpecGossip ==
    /\ InitNet
    /\ [][NextGossip]_vars
    /\ WF_vars(\E k \in 1 .. MaxSessions : ListenAccept(k))
    /\ WF_vars(\E k \in 1 .. MaxSessions : ListenHeights(k))
    /\ WF_vars(\E k \in 1 .. MaxSessions : SyncSendUnits(k))
    /\ WF_vars(\E k \in 1 .. MaxSessions : ListenReceive(k))
    /\ WF_vars(\E k \in 1 .. MaxSessions : SyncReceive(k))

\* a sync of i against t has run to its end: the target has added the
\* units of the initiator and answered, the initiator has added the answer
SyncCompleted(i, t) ==
    /\ call.op = "sync_receive"
    /\ call.process = i
    /\ call.peer = t
    /\ call.outcome = "added"

\* syncs between every pair of processes keep completing
FairGossip ==
    \A i \in NetProcs : \A t \in NetProcs \ {i} : []<>SyncCompleted(i, t)

\* every unit admitted by a process is eventually admitted by every other
EveryUnitSpreads ==
    \A U \in GossipUnits :
        \A p \in NetProcs : \A q \in NetProcs :
            (U \in proc[p].units) ~> (U \in proc[q].units)

\* C21: when syncs between every pair of processes keep completing, every
\* unit admitted by one process is eventually admitted by every other
\* process, both units of a fork included.
C21_GossipSpreadsUnits == FairGossip => EveryUnitSpreads

\* the units of a list as it travels
UnitsOf(units) ==
    { Unit(units[j].creator_id, units[j].parents_hashes, units[j].txs,
           units[j].signature) : j \in DOMAIN units }

\* the list holds a unit that is in S and every parent named in the list
\* is in S or earlier in the list (no assertion fails)
HasKnownUnit(S, units) ==
    /\ UnitsOf(units) \cap S # {}
    /\ \A j \in DOMAIN units :
          \A i \in DOMAIN units[j].parents_hashes :
              \/ units[j].parents_hashes[i] \in S
              \/ units[j].parents_hashes[i] \in UnitsOf(SubSeq(units, 1, j - 1))

\* a side that receives a list with a unit it holds already goes through
\* the whole list: it holds every unit of the list afterwards, and the
\* target goes on to send its answer
KnownUnitSkipped ==
    \A k \in DOMAIN net.sessions :
        LET ss == net.sessions[k]
            tt == net'.sessions[k]
        IN  /\ ( /\ ss.ipc # "none"
                 /\ ss.tpc = "await_units"
                 /\ ss.to_target # <<>>
                 /\ tt # ss
                 /\ HasKnownUnit(proc[ss.target].units, Head(ss.to_target).units) )
               => /\ UnitsOf(Head(ss.to_target).units)
                       \subseteq proc'[ss.target].units
                  /\ call'.outcome = "added"
            /\ ( /\ ss.ipc = "await_units"
                 /\ ss.to_initiator # <<>>
                 /\ tt # ss
                 /\ HasKnownUnit(proc[ss.initiator].units,
                                 Head(ss.to_initiator).units) )
               => /\ UnitsOf(Head(ss.to_initiator).units)
                       \subseteq proc'[ss.initiator].units
                  /\ call'.outcome = "added"

\* C22: when a list of units received in a sync holds a unit the receiver
\* has admitted already, admitting it again is a no-op: the sync is not
\* aborted and the units after it in the list are still admitted.
C22_KnownUnitInBatch == [][KnownUnitSkipped]_vars

(***************************************************************************)
(* The bookkeeping of the linear order, under Spec, where every unit of    *)
(* the poset was admitted by add_unit_to_poset.                            *)
(***************************************************************************)
\* C23: in LINEAR_ORDERING mode unordered_units and the units in
\* linear_order are disjoint and together they are exactly the units
\* admitted through add_unit_to_poset.
C23_OrderedUnorderedPartition ==
    \A p \in DOMAIN proc :
        proc[p].validation_method = "LINEAR_ORDERING" =>
            /\ proc[p].unordered_units \cap Range(proc[p].linear_order) = {}
            /\ proc[p].unordered_units \cup Range(proc[p].linear_order)
                 = proc[p].units

\* a process in LINEAR_ORDERING mode holds ordered units and units that
\* are not ordered yet
C23_Witness ==
    \E p \in DOMAIN proc :
        /\ proc[p].validation_method = "LINEAR_ORDERING"
        /\ proc[p].linear_order # <<>>
        /\ proc[p].unordered_units # {}
        /\ Len(proc[p].timing_units) >= 2

(***************************************************************************)
(* The ledger alone (specification SpecLedger): a caller applies           *)
(* transactions to the UserDB of a process with apply_transaction, any     *)
(* issuer, receiver, amount and index.                                     *)
(***************************************************************************)
MaxTxIndex == 1

LedgerAmounts == {-5, 10, 60}

LedgerTxs ==
    { Tx(i, r, a, x) : i \in Users, r \in Users, a \in LedgerAmounts,
                       x \in 0 .. MaxTxIndex }

RECURSIVE SumOver(_, _)
SumOver(d, keys) ==
    IF keys = {} THEN 0
    ELSE LET k == CHOOSE x \in keys : TRUE
         IN  d[k] + SumOver(d, keys \ {k})

\* the sum of all account balances
TotalBalance(db) == SumOver(db.user_balance, DOMAIN db.user_balance)

InitLedger ==
    /\ proc \in { [p \in {0} |-> Process(p, UserDB(l), "NONE")] :
                    l \in InitialLedgers }
    /\ call = NoCall
    /\ net = NoNet

\* userDB.apply_transaction(tx); an AssertionError leaves the ledger as it
\* was
ApplyTransaction(p, tx) ==
    LET r == apply_transaction(proc[p].userDB, tx)
    IN  /\ proc' = [proc EXCEPT ![p].userDB = r.db]
        /\ call' = [op |-> "apply_transaction",
                    process |-> p,
                    tx |-> tx,
                    valid |-> check_transaction_correctness(proc[p].userDB, tx),
                    raised |-> r.raised]
        /\ UNCHANGED net

NextLedger ==
    \E p \in DOMAIN proc : \E tx \in LedgerTxs : ApplyTransaction(p, tx)

SpecLedger == InitLedger /\ [][NextLedger]_vars

\* the sum of the balances is the same before and after a step
TotalUnchanged ==
    \A p \in DOMAIN proc :
        TotalBalance(proc'[p].userDB) = TotalBalance(proc[p].userDB)

\* C24: apply_transaction conserves money: for every valid transaction,
\* one whose issuer and receiver are the same account included, the sum of
\* all balances after the call equals the sum before it.
C24_MoneyConserved == [][TotalUnchanged]_vars

\* C25: in every state of a listener n_recv_syncs is the number of inbound
\* syncs its handlers are serving: a handler that has ended, for whatever
\* reason, has given its place back.
C25_CounterIsInFlight ==
    \A t \in NetProcs : net.n_recv_syncs[t] = Cardinality(InFlight(t))


(***************************************************************************)
(* The creator loop and the queue of transactions (specification           *)
(* SpecCreate).  The transaction source puts batches in txs_queue;         *)
(* create_add attaches prepared_txs to the unit it creates and then takes  *)
(* the next batch.  taken lists the batches create_add took from the queue *)
(* (it is not part of the program).  Units of the other creators reach the *)
(* poset through the listener and the syncs.                               *)
(***************************************************************************)
MaxBatches == 3

CreateMaxUnits == 6

\* the i-th batch the transaction source puts in the queue
Batch(i) == << Tx("A", "B", 10, i) >>

\* a turn of the loop of create_add that takes the next batch whether or
\* not a unit was created
create_add_turn_always_takes(s, txs_queue, new_unit) ==
    LET s1 == IF new_unit = <<>> THEN s
              ELSE add_unit_to_poset(s, new_unit[1],
                       CHOOSE o \in Oracles(s, new_unit[1]) : TRUE).s
    IN  [s |-> [s1 EXCEPT !.prepared_txs =
                   IF txs_queue # <<>> THEN Head(txs_queue) ELSE <<>>],
         txs_queue |-> IF txs_queue # <<>> THEN Tail(txs_queue) ELSE <<>>]

\* lines 249-269: a turn of the loop of create_add; new_unit is <<>> when
\* create_unit returned None and holds the unit otherwise
create_add_turn(s, txs_queue, new_unit) ==
    IF new_unit = <<>>
    THEN [s |-> s, txs_queue |-> txs_queue]
    ELSE LET s1 == add_unit_to_poset(s, new_unit[1],
                       CHOOSE o \in Oracles(s, new_unit[1]) : TRUE).s
         IN  [s |-> [s1 EXCEPT !.prepared_txs =
                        IF txs_queue # <<>> THEN Head(txs_queue) ELSE <<>>],
              txs_queue |-> IF txs_queue # <<>> THEN Tail(txs_queue) ELSE <<>>]

\* what create_unit(process_id, txs) returns: a unit that carries txs, or
\* nothing when no unit can be built
create_unit_with(S, process_id, txs) ==
    IF create_unit(S, process_id) = {} THEN { <<>> }
    ELSE { << Unit(U.creator_id, U.parents, txs, TRUE) >> :
             U \in create_unit(S, process_id) }

InitCreate ==
    /\ proc \in { [p \in {0} |-> Process(p, UserDB(l), "NONE")] :
                    l \in InitialLedgers }
    /\ call = NoCall
    /\ net = [txs_queue |-> <<>>, put |-> 0, taken |-> <<>>, cpc |-> "loop",
              created_count |-> 0, max_level_reached |-> FALSE]

\* the transaction source puts its next batch in the queue
PutTxs ==
    /\ net.put < MaxBatches
    /\ net' = [net EXCEPT !.txs_queue = Append(@, Batch(net.put)),
                          !.put = @ + 1]
    /\ call' = [op |-> "put_txs"]
    /\ UNCHANGED proc

\* create_add, lines 243-271: one turn of the loop
CreateTurn(p, new_unit) ==
    LET r == create_add_turn(proc[p], net.txs_queue, new_unit)
    IN  /\ net.cpc = "loop"
        /\ net.created_count # UNITS_LIMIT /\ ~ net.max_level_reached
        /\ proc' = [proc EXCEPT ![p] = r.s]
        /\ net' = [net EXCEPT
                     !.txs_queue = r.txs_queue,
                     !.taken = IF Len(r.txs_queue) < Len(net.txs_queue)
                               THEN Append(@, Head(net.txs_queue)) ELSE @,
                     !.created_count =
                         IF new_unit = <<>> THEN @ ELSE @ + 1,
                     !.max_level_reached =
                         IF new_unit = <<>> THEN @
                         ELSE @ \/ level(new_unit[1]) = LEVEL_LIMIT]
        /\ call' = [op |-> "create_add", process |-> p,
                    created |-> new_unit # <<>>]

\* create_add, lines 243 and 274-279: the loop is left
CreateLeave(p) ==
    /\ net.cpc = "loop"
    /\ ~ (net.created_count # UNITS_LIMIT /\ ~ net.max_level_reached)
    /\ proc' = [proc EXCEPT ![p].keep_syncing = FALSE]
    /\ net' = [net EXCEPT !.cpc = "done"]
    /\ call' = [op |-> "create_stop", process |-> p]

\* the listener or a sync admits a unit of another creator
CreateReceive(p, U) ==
    /\ Cardinality(proc[p].units) < CreateMaxUnits
    /\ proc' = [proc EXCEPT ![p] = poset_add_unit(@, U)]
    /\ call' = [op |-> "receive", process |-> p]
    /\ UNCHANGED net

NextCreate ==
    \/ PutTxs
    \/ \E new_unit \in create_unit_with(proc[0].units, 0, proc[0].prepared_txs) :
          CreateTurn(0, new_unit)
    \/ CreateLeave(0)
    \/ \E U \in { V \in NetCandidates(proc[0].units) : V.creator_id # 0 } :
          CreateReceive(0, U)

SpecCreate == InitCreate /\ [][NextCreate]_vars

\* the units of the process p that carry the batch b
Carrying(S, p, b) == { U \in S : U.creator_id = p /\ U.txs = b }

\* a batch taken from the queue is attached to at most one unit
BatchAttachedOnce ==
    \A p \in DOMAIN proc :
        \A i \in DOMAIN net.taken :
            Cardinality(Carrying(proc[p].units, p, net.taken[i])) <= 1

\* a turn that creates no unit keeps the batch and takes none from the
\* queue; a batch is taken only in a turn after which a unit carries the
\* batch taken before it
BatchKeptThenReplaced ==
    \A p \in DOMAIN proc :
        /\ (call'.op = "create_add" /\ ~ call'.created) =>
              /\ proc'[p].prepared_txs = proc[p].prepared_txs
              /\ net'.txs_queue = net.txs_queue
              /\ net'.taken = net.taken
        /\ Len(net'.taken) > Len(net.taken) =>
              /\ proc'[p].prepared_txs = net'.taken[Len(net'.taken)]
              /\ Carrying(proc'[p].units, p, proc[p].prepared_txs) # {}
              /\ \A i \in DOMAIN net.taken :
                    Carrying(proc'[p].units, p, net.taken[i]) # {}

\* C26: in the creator loop every batch taken from the queue is attached
\* to at most one created unit, a batch is kept for the next attempt when
\* create_unit returns no unit, and a new batch is taken from the queue
\* only after a unit carrying the previous batch has been created.
C26_BatchesAttachedOnce ==
    []BatchAttachedOnce /\ [][BatchKeptThenReplaced]_vars

\* a turn has created no unit while a batch taken from the queue was
\* waiting, after an earlier batch had been attached to a unit
C26_Witness ==
    /\ call.op = "create_add"
    /\ ~ call.created
    /\ Len(net.taken) >= 2
    /\ \E p \in DOMAIN proc :
          /\ proc[p].prepared_txs = net.taken[Len(net.taken)]
          /\ Carrying(proc[p].units, p, net.taken[1]) # {}


(***************************************************************************)
(* Fast validation with transactions of several indices (specification     *)
(* SpecSnap).  A process in SNAP mode is handed units whose transactions   *)
(* are all issued by A: the genesis unit of creator 0 carries the indices  *)
(* 0 and 1, that of creator 1 the indices 1 and 0 in this order, with      *)
(* other receivers, and that of creator 2 the index 2 or again the index   *)
(* 0.                                                                      *)
(***************************************************************************)
SnapMaxUnits == 5

SnapBatchesOf(c, ps) ==
    IF ps # <<>> THEN { <<>> }
    ELSE IF c = 0 THEN { << Tx("A", "B", 10, 0), Tx("A", "B", 10, 1) >> }
    ELSE IF c = 1 THEN { << Tx("A", "C", 20, 1), Tx("A", "C", 20, 0) >> }
    ELSE { << Tx("A", "B", 30, 2) >>, << Tx("A", "C", 30, 0) >> }

\* the units a caller hands to add_unit_to_poset of a process whose poset
\* holds S: the admitted units again and new units on top of S
SnapCandidates(S) ==
    S \cup
    (IF Cardinality(S) >= SnapMaxUnits THEN {}
     ELSE UNION { { Unit(c, <<>>, b, TRUE) : b \in SnapBatchesOf(c, <<>>) } :
                  c \in ProcessIds }
          \cup
          UNION { { Unit(q[1].creator_id, q, b, TRUE) :
                      b \in SnapBatchesOf(q[1].creator_id, q) } :
                  q \in { r \in S \X S : r[1].creator_id # r[2].creator_id } })

InitSnap ==
    /\ proc \in { [p \in {0} |-> Process(p, UserDB(l), "SNAP")] :
                    l \in InitialLedgers }
    /\ call = NoCall
    /\ net = NoNet

NextSnap ==
    \E p \in DOMAIN proc :
        \E U \in SnapCandidates(proc[p].units) :
            \E o \in Oracles(proc[p], U) : AddUnit(p, U, o)

SpecSnap == InitSnap /\ [][NextSnap]_vars

\* the last index of the user u in the ledger the process started with
InitialLastIndex(u) ==
    LET l == CHOOSE x \in InitialLedgers : TRUE
    IN  IF u \in DOMAIN l THEN l[u][2] ELSE -1

\* the entries of the list txs issued by u
IssuedBy(txs, u) == SelectSeq(txs, LAMBDA tx : tx.issuer = u)

\* C27: at most one transaction is ever applied for a pair (issuer,
\* index), and the indices of the transactions applied for an issuer are
\* consecutive, starting at the issuer's initial last index plus one.
C27_OnePerIssuerIndex ==
    \A p \in DOMAIN proc :
        \A u \in Users :
            LET applied == IssuedBy(proc[p].validated_transactions, u)
            IN  /\ \A k \in DOMAIN applied :
                      applied[k].index = InitialLastIndex(u) + k
                /\ last_transaction(proc[p].userDB, u)
                      = InitialLastIndex(u) + Len(applied)

\* the transactions of the indices 0 and 1 of A were applied, and the
\* poset holds another transaction of A with the index 0 that was not
C27_Witness ==
    \E p \in DOMAIN proc :
        /\ Len(IssuedBy(proc[p].validated_transactions, "A")) >= 2
        /\ \E U \in proc[p].units :
              \E i \in DOMAIN U.txs :
                  /\ U.txs[i].index = 0
                  /\ U.txs[i] \notin Range(proc[p].validated_transactions)

=============================================================================
